---- MODULE Spec2Model ----
(***************************************************************************)
(* Credential issuance, refresh-session lifecycle, identity registry and   *)
(* role authority of the e-bike fleet backend:                             *)
(* src/src/services/authentication/service.py (create_user, login,         *)
(* refresh, logout, upsert_user_profile, set_user_role_by_*,               *)
(* bootstrap_admin), src/src/api_gateway/core/security.py (password        *)
(* hashing, token minting and decoding, get_current_user, require_admin),  *)
(* src/src/api_gateway/routers/auth_router.py and the tables of            *)
(* src/src/services/authentication/models.py.                              *)
(*                                                                         *)
(* Every request runs in its own SQLAlchemy session against a store whose  *)
(* commits are atomic.  A handler is cut into steps at its db.commit()     *)
(* calls, the only points where its writes become visible to the others;   *)
(* the reads of a handler see the committed rows.  Time is counted in      *)
(* whole seconds.                                                          *)
(***************************************************************************)
EXTENDS Integers, FiniteSets, Sequences, TLC

VARIABLES
    clock,          \* datetime.now(timezone.utc), in seconds
    users,          \* table users: id -> row
    profiles,       \* table user_profiles: id -> row
    sessions,       \* table refresh_tokens: jti -> row
    refreshTokens,  \* refresh tokens handed to clients (the refresh_token cookie)
    accessTokens,   \* access tokens handed to clients
    req,            \* the requests in flight: worker -> position and locals
    response,       \* the last response sent: the request and its outcome
    parent,         \* history: jti -> jti of the session whose rotation inserted it (NULL: a login)
    companion,      \* history: jti of an access token -> jti of the session issued with it
    bootstrapped,   \* history: the callers bootstrap_admin has promoted
    call            \* the last call of a function of security.py made by itself

\* The tables and history the session operations leave alone.
registry == <<users, profiles, bootstrapped>>

vars == <<clock, users, profiles, sessions, refreshTokens, accessTokens, req, response, parent,
         companion, bootstrapped, call>>

(***************************************************************************)
(* Bounds of the model.                                                    *)
(***************************************************************************)
NProcs == 2         \* concurrent workers
MaxSessions == 3    \* rows of refresh_tokens ever inserted
MaxTime == 2592001  \* last instant of the clock

Procs == 1..NProcs

(***************************************************************************)
(* Program constants.                                                      *)
(***************************************************************************)
days == 30              \* _create_refresh_record_and_token(..., days: int = 30)
expires_minutes == 60   \* create_access_token(..., expires_minutes: int = 60)

jwt_secret == "jwt_secret"
NULL == 0               \* replaced_by IS NULL; also "no jti"

(***************************************************************************)
(* Password hashing (security.py 15-33).  A bytes value is a sequence of   *)
(* 0..255 and a str that is taken apart is a sequence of characters; a     *)
(* password is a str the model never takes apart, known by its UTF-8       *)
(* encoding.                                                               *)
(***************************************************************************)
SALT_LEN_BYTES == 16

\* str.encode("utf-8") of the passwords of the model
encode ==
    ("" :> << >>) @@ ("pw" :> <<112, 119>>) @@
    ("pw1" :> <<112, 119, 49>>) @@ ("pw2" :> <<112, 119, 50>>)

HexDigits == <<"0", "1", "2", "3", "4", "5", "6", "7", "8", "9", "a", "b", "c", "d", "e", "f">>
UpperHexDigits == <<"0", "1", "2", "3", "4", "5", "6", "7", "8", "9", "A", "B", "C", "D", "E", "F">>

\* bytes.hex(): two lowercase digits for each byte
RECURSIVE hex(_)
hex(bytes) ==
    IF bytes = << >> THEN << >>
    ELSE <<HexDigits[(bytes[1] \div 16) + 1], HexDigits[(bytes[1] % 16) + 1]>> \o hex(Tail(bytes))

is_hex_digit(c) == \E i \in 1..16 : HexDigits[i] = c \/ UpperHexDigits[i] = c
hex_value(c) == (CHOOSE i \in 1..16 : HexDigits[i] = c \/ UpperHexDigits[i] = c) - 1

\* bytes.fromhex(): FALSE where it raises ValueError.  Whitespace is skipped in
\* front of a byte; a byte is two hexadecimal digits of either case.
RECURSIVE fromhex_accepts(_)
fromhex_accepts(string) ==
    IF string = << >> THEN TRUE
    ELSE IF string[1] = " " THEN fromhex_accepts(Tail(string))
    ELSE /\ Len(string) >= 2
         /\ is_hex_digit(string[1]) /\ is_hex_digit(string[2])
         /\ fromhex_accepts(Tail(Tail(string)))

RECURSIVE fromhex(_)
fromhex(string) ==
    IF string = << >> THEN << >>
    ELSE IF string[1] = " " THEN fromhex(Tail(string))
    ELSE <<16 * hex_value(string[1]) + hex_value(string[2])>> \o fromhex(Tail(Tail(string)))

\* hashlib.sha256(data).hexdigest().  The digest is kept symbolic: a hexadecimal
\* string that is a one-to-one function of the data stands for it (collision-free).
sha256_hexdigest(data) == hex(data)

\* str.split("$"): the fields between the separators
RECURSIVE split(_, _)
split(string, sep) ==
    IF \A i \in 1..Len(string) : string[i] # sep THEN <<string>>
    ELSE LET i == CHOOSE i \in 1..Len(string) :
                     string[i] = sep /\ \A k \in 1..(i - 1) : string[k] # sep
         IN  <<SubSeq(string, 1, i - 1)>> \o split(SubSeq(string, i + 1, Len(string)), sep)

\* security.py 18-21: f"sha256${salt.hex()}${digest}"
hash_password(password, salt) ==
    <<"s", "h", "a", "2", "5", "6", "$">> \o hex(salt) \o <<"$">>
        \o sha256_hexdigest(salt \o encode[password])

\* Mutant of verify_password: the algorithm tag is not read.
verify_password_any_tag(plain_password, hashed_password) ==
    LET fields == split(hashed_password, "$")
    IN  IF Len(fields) # 3 THEN FALSE
        ELSE IF ~fromhex_accepts(fields[2]) THEN FALSE
        ELSE sha256_hexdigest(fromhex(fields[2]) \o encode[plain_password]) = fields[3]

\* Mutant of verify_password: the salt is not decoded, its hexadecimal text is
\* hashed as it stands (one byte for each character).
verify_password_salt_undecoded(plain_password, hashed_password) ==
    LET fields == split(hashed_password, "$")
    IN  IF Len(fields) # 3 THEN FALSE
        ELSE IF fields[1] # <<"s", "h", "a", "2", "5", "6">> THEN FALSE
        ELSE IF ~fromhex_accepts(fields[2]) THEN FALSE
        ELSE sha256_hexdigest([i \in 1..Len(fields[2]) |-> hex_value(fields[2][i])]
                                 \o encode[plain_password]) = fields[3]

\* security.py 24-33.  The unpacking of line 26 raises ValueError unless split
\* gives three fields, bytes.fromhex raises ValueError, and line 32 turns
\* every exception into False.
verify_password(plain_password, hashed_password) ==
    LET fields == split(hashed_password, "$")
    IN  IF Len(fields) # 3 THEN FALSE
        ELSE IF fields[1] # <<"s", "h", "a", "2", "5", "6">> THEN FALSE
        ELSE IF ~fromhex_accepts(fields[2]) THEN FALSE
        ELSE sha256_hexdigest(fromhex(fields[2]) \o encode[plain_password]) = fields[3]

(***************************************************************************)
(* Tokens (security.py).  A token is its payload together with the key it  *)
(* was signed with; typ = "none" is a payload without a typ claim.         *)
(***************************************************************************)
NoToken == [typ |-> "null", sub |-> "none", jti |-> NULL, exp |-> 0, key |-> "none"]

create_access_token(subject, jti, now) ==
    [typ |-> "none", sub |-> subject, jti |-> jti,
     exp |-> now + expires_minutes * 60, key |-> jwt_secret]

\* Mutant of create_refresh_token: the payload carries the subject as its jti.
create_refresh_token_jti_of_subject(subject, jti, expires_days, now) ==
    [typ |-> "refresh", sub |-> subject, jti |-> subject,
     exp |-> now + expires_days * 86400, key |-> jwt_secret]

create_refresh_token(subject, jti, expires_days, now) ==
    [typ |-> "refresh", sub |-> subject, jti |-> jti,
     exp |-> now + expires_days * 86400, key |-> jwt_secret]

\* jose's jwt.decode: the signature, then exp (expired when exp < now).
jwt_decode(token, now) ==
    IF token.key # jwt_secret THEN "JWTError"
    ELSE IF token.exp < now THEN "JWTError"
    ELSE "ok"

\* Mutant of decode_refresh_token: typ is not read.
decode_refresh_token_any_typ(token, now) ==
    IF jwt_decode(token, now) # "ok" THEN "Invalid or expired token"
    ELSE "ok"

\* Mutant of decode_refresh_token: typ is read before the token is verified.
decode_refresh_token_typ_first(token, now) ==
    IF token.typ # "refresh" THEN "Invalid token type"
    ELSE IF jwt_decode(token, now) # "ok" THEN "Invalid or expired token"
    ELSE "ok"

\* "ok", or the detail of the HTTPException (401) it raises.
decode_refresh_token(token, now) ==
    IF jwt_decode(token, now) # "ok" THEN "Invalid or expired token"
    ELSE IF token.typ # "refresh" THEN "Invalid token type"
    ELSE "ok"

\* Mutant of get_current_user: a bearer token is honoured only while its subject
\* still holds a session that is not revoked.
get_current_user_checks_sessions(token, now) ==
    IF jwt_decode(token, now) # "ok" THEN "401"
    ELSE IF token.sub = "none" THEN "401"
    ELSE IF token.sub \notin DOMAIN users THEN "401"
    ELSE IF \A j \in DOMAIN sessions :
               sessions[j].user_id = token.sub => sessions[j].revoked THEN "401"
    ELSE token.sub

\* The user row id the bearer token authenticates, or "401".
get_current_user(token, now) ==
    IF jwt_decode(token, now) # "ok" THEN "401"
    ELSE IF token.sub = "none" THEN "401"
    ELSE IF token.sub \notin DOMAIN users THEN "401"
    ELSE token.sub

\* security.py 80-86: the detail of the 401 of get_current_user
unauthorized_detail(token, now) ==
    IF jwt_decode(token, now) # "ok" \/ token.sub = "none"
    THEN "Invalid token"
    ELSE "User not found"

(***************************************************************************)
(* The store.                                                              *)
(***************************************************************************)
UserIds == {"u1", "u2"}

\* models.RoleEnum, the values of the column users.role
RoleEnum == {"admin", "driver"}

\* models.User(username, email, password_hash, role)
User(username, email, password_hash, role) ==
    [username |-> username, email |-> email, password_hash |-> password_hash, role |-> role]

\* models.UserProfile(user_id): the contact fields are NULL
UserProfile(user_id) == [user_id |-> user_id, first_name |-> ""]

\* The store after alice, then bob, have registered one after the other.
InitUsers ==
    [u \in UserIds |->
        IF u = "u1"
        THEN User("alice", "alice@x.com", hash_password("pw1", [i \in 1..SALT_LEN_BYTES |-> 161]), "admin")
        ELSE User("bob", "bob@x.com", hash_password("pw2", [i \in 1..SALT_LEN_BYTES |-> 162]), "driver")]

InitProfiles == (1 :> UserProfile("u1")) @@ (2 :> UserProfile("u2"))

Identifiers == {"alice", "alice@x.com", "bob", "nobody"}
Passwords == {"pw1", "pw2"}

\* models.RefreshToken(jti, user_id, revoked=False, expires_at), replaced_by NULL
RefreshToken(user_id, expires_at) ==
    [user_id |-> user_id, revoked |-> FALSE, replaced_by |-> NULL,
     expires_at |-> expires_at]

\* secrets.token_hex(16): a value no row carries yet
token_hex16 == Cardinality(DOMAIN sessions) + 1
\* secrets.token_hex(8): the access tokens' own identifiers, disjoint from the jtis of rows
token_hex8 == 0 - (Cardinality(accessTokens) + 1)

\* A jti no row ever carries (tests/test_security.py mints a token with jti="abcd").
OrphanJti == MaxSessions + 1

\* Tokens a client can hold without having been handed them by login or refresh:
\* one signed with another key, a well-signed refresh token without a row, and a
\* well-signed refresh token whose payload has no jti.
Crafted ==
    { [typ |-> "refresh", sub |-> "u1", jti |-> 1, exp |-> MaxTime + 1, key |-> "other"],
      [typ |-> "refresh", sub |-> "u1", jti |-> OrphanJti, exp |-> MaxTime + 1, key |-> jwt_secret],
      [typ |-> "refresh", sub |-> "u1", jti |-> NULL, exp |-> MaxTime + 1, key |-> jwt_secret] }

Presentable == refreshTokens \cup accessTokens \cup Crafted

(***************************************************************************)
(* Requests.                                                               *)
(***************************************************************************)
\* What the client is sent back: the status, the detail of an HTTPException, the
\* user a bearer token authenticated, the max_age of the cookie.  The tokens of a
\* 200 go to refreshTokens and accessTokens.
\* `token` and `target` are the request it answers: the refresh or bearer token, the
\* target and role of a role change.
\* `seen` is history and is not sent: what logout found in the row it loaded.
NoTarget == [by |-> "none", key |-> "none", role |-> "none"]

NoResponse == [op |-> "none", token |-> NoToken, status |-> "none", detail |-> "",
               user |-> "none", max_age |-> 0, seen |-> "", target |-> NoTarget]

Respond(op, token, status) ==
    [NoResponse EXCEPT !.op = op, !.token = token, !.status = status]

Raise(op, token, status, detail) ==
    [NoResponse EXCEPT !.op = op, !.token = token, !.status = status, !.detail = detail]

\* The locals of a handler: the token it was given, record.revoked as loaded by its
\* query, the refresh token it minted and the max_age returned with it.  `flipped` is history: its first commit is
\* the one that turned revoked from false to true.
\* For the registry handlers: the UserCreate body, has_admin as counted, the user
\* row get_current_user loaded (id and role).
NoUserCreate == [username |-> "", email |-> "", password |-> ""]
NoUser == [id |-> "none", role |-> "none"]

Idle == [op |-> "none", pc |-> "idle", token |-> NoToken, revoked |-> FALSE,
         new_refresh_jwt |-> NoToken, max_age |-> 0, flipped |-> FALSE,
         user |-> NoUserCreate, has_admin |-> FALSE, current_user |-> NoUser]

\* A call of hash_password, verify_password, create_refresh_token or
\* decode_refresh_token: its arguments and what it returned.  `password` and
\* `salt` are what `hashed_password` was made of, `subject` and `jti` what `token`
\* was minted with; `presented` is the token decode was given, `now` the time of
\* the call.
NoPayload == [sub |-> "none", jti |-> "none", typ |-> "none"]

NoCall == [fn |-> "none", password |-> "", salt |-> << >>, hashed_password |-> << >>,
           edit |-> "none", plain_password |-> "", subject |-> "", jti |-> "",
           token |-> NoToken, presented |-> NoToken, now |-> 0,
           result |-> "none", payload |-> NoPayload]

\* A response is on its way out in the step after the one that produced it; the
\* next step of a handler is taken once it has left.
Quiet == response = NoResponse

Free(p) == Quiet /\ req[p].pc = "idle"
At(p, pc) == Quiet /\ req[p].pc = pc

\* Rows that requests already past their lookup will still insert.
Pending == Cardinality({q \in Procs : req[q].pc = "rotate"})
Room == Cardinality(DOMAIN sessions) + Pending < MaxSessions

Init ==
    /\ clock = 0
    /\ users = InitUsers
    /\ profiles = InitProfiles
    /\ bootstrapped = {}
    /\ sessions = << >>
    /\ refreshTokens = {}
    /\ accessTokens = {}
    /\ req = [p \in Procs |-> Idle]
    /\ response = NoResponse
    /\ parent = << >>
    /\ companion = << >>
    /\ call = NoCall

(***************************************************************************)
(* SessionStore.open: _create_refresh_record_and_token (service.py 81-98). *)
(* The row is added and committed, then the refresh token is minted.  The  *)
(* operator gives the rows after the commit; `written` are the pending     *)
(* changes of the caller's session that the same commit flushes.           *)
(***************************************************************************)
\* Mutant of insert_record: one session for each user, the user's other rows are
\* revoked when a new one is opened.
insert_record_single_session(written, jti, user_id, now) ==
    [j \in DOMAIN written |->
        IF written[j].user_id = user_id THEN [written[j] EXCEPT !.revoked = TRUE] ELSE written[j]]
      @@ (jti :> RefreshToken(user_id, now + days * 86400))

\* Mutant of insert_record: the lifetime is absolute, a new row of a user that has
\* rows expires when the earliest of them does.
insert_record_absolute_lifetime(written, jti, user_id, now) ==
    LET own == {written[j].expires_at : j \in {k \in DOMAIN written : written[k].user_id = user_id}}
    IN  written @@ (jti :> RefreshToken(user_id,
                        IF own = {} THEN now + days * 86400
                        ELSE CHOOSE e \in own : \A f \in own : e <= f))

insert_record(written, jti, user_id, now) ==
    written @@ (jti :> RefreshToken(user_id, now + days * 86400))

\* service.py 97: the difference of the expires_at and the now of lines 82-84
max_age_of(expires_at, now) == expires_at - now

(***************************************************************************)
(* POST /auth/login (auth_router.py 15-28): authenticate_user, then        *)
(* mint_refresh_token.  One commit.                                        *)
(***************************************************************************)
\* service.py 69-73: the rows the query matches; .first() returns one of them
matching_users(identifier) ==
    { u \in DOMAIN users :
        users[u].username = identifier \/ users[u].email = identifier }

\* service.py 74: if not user or not verify_password(login.password, user.password_hash)
authenticate_user(user, password) ==
    verify_password(password, users[user].password_hash)

open_session(u) ==
    LET jti == token_hex16
        access == create_access_token(u, token_hex8, clock)
        refresh_jwt == create_refresh_token(u, jti, days, clock)
    IN  /\ sessions' = insert_record(sessions, jti, u, clock)
        /\ refreshTokens' = refreshTokens \cup {refresh_jwt}
        /\ accessTokens' = accessTokens \cup {access}
        /\ parent' = parent @@ (jti :> NULL)
        /\ companion' = companion @@ (access.jti :> jti)
        /\ response' = [Respond("login", NoToken, "200") EXCEPT
                          !.user = u,
                          !.max_age = max_age_of(sessions'[jti].expires_at, clock)]

invalid_credentials ==
    /\ response' = Raise("login", NoToken, "401", "Invalid credentials")
    /\ UNCHANGED <<sessions, refreshTokens, accessTokens, parent, companion>>

login(p, identifier, password) ==
    /\ Free(p)
    /\ IF matching_users(identifier) = {}
       THEN invalid_credentials
       ELSE \E user \in matching_users(identifier) :
               IF ~authenticate_user(user, password)
               THEN invalid_credentials
               ELSE Room /\ open_session(user)
    /\ UNCHANGED <<clock, call, registry, req>>

(***************************************************************************)
(* POST /auth/refresh: refresh_access (service.py 105-132).                *)
(***************************************************************************)
\* Mutant of revoked_or_not_found: `if not record`, the revoked flag is not read.
revoked_or_not_found_ignores_flag(jti) == jti \notin DOMAIN sessions

\* service.py 117: if not record or record.revoked
revoked_or_not_found(jti) ==
    \/ jti \notin DOMAIN sessions
    \/ sessions[jti].revoked

\* Mutant of record_expired: `<` for `<=`.
record_expired_strict(jti, now) == sessions[jti].expires_at < now

\* service.py 120: if record.expires_at <= now
record_expired(jti, now) == sessions[jti].expires_at <= now

\* service.py 106-121: "ok", or the detail of the 401 raised before any write
refresh_check(token, now) ==
    IF decode_refresh_token(token, now) # "ok" THEN decode_refresh_token(token, now)
    ELSE IF token.jti = NULL \/ token.sub = "none" THEN "Invalid token"
    ELSE IF revoked_or_not_found(token.jti) THEN "Token revoked or not found"
    ELSE IF record_expired(token.jti, now) THEN "Token expired"
    ELSE "ok"

refresh_lookup(p, token) ==
    /\ Free(p)
    /\ token \in Presentable
    /\ IF refresh_check(token, clock) = "ok"
       THEN /\ Room
            /\ req' = [req EXCEPT ![p] =
                         [Idle EXCEPT !.op = "refresh", !.pc = "rotate", !.token = token]]
            /\ UNCHANGED response
       ELSE /\ response' = Raise("refresh", token, "401", refresh_check(token, clock))
            /\ UNCHANGED req
    /\ UNCHANGED <<clock, call, registry, sessions, refreshTokens, accessTokens, parent, companion>>

\* Mutant of mark_revoked: the row is deleted.
mark_revoked_deletes(jti) == [j \in DOMAIN sessions \ {jti} |-> sessions[j]]

\* Mutant of mark_revoked: the session that replaced the row is revoked with it.
mark_revoked_and_successor(jti) ==
    [j \in DOMAIN sessions |->
        IF j = jti \/ j = sessions[jti].replaced_by
        THEN [sessions[j] EXCEPT !.revoked = TRUE]
        ELSE sessions[j]]

\* Mutant of mark_revoked: the assignment to record.revoked is lost.
mark_revoked_lost(jti) == sessions

\* service.py 124: record.revoked = True, flushed by the commit of line 93
\* (UPDATE refresh_tokens SET revoked = true WHERE id = :id)
mark_revoked(jti) == [sessions EXCEPT ![jti].revoked = TRUE]

\* service.py 123-125: the first commit of the rotation
refresh_rotate(p) ==
    /\ At(p, "rotate")
    /\ LET old == req[p].token.jti
           sub == req[p].token.sub
           jti == token_hex16
       IN  /\ sessions' = insert_record(mark_revoked(old), jti, sub, clock)
           /\ parent' = parent @@ (jti :> old)
           /\ req' = [req EXCEPT ![p].pc = "link",
                                 ![p].new_refresh_jwt = create_refresh_token(sub, jti, days, clock),
                                 ![p].max_age = max_age_of(sessions'[jti].expires_at, clock),
                                 ![p].flipped = ~sessions[old].revoked]
    /\ UNCHANGED <<clock, call, registry, refreshTokens, accessTokens, response, companion>>

\* Mutant of set_linkage: the link is written on the new row, pointing back.
set_linkage_swapped(jti, new_jti) == [sessions EXCEPT ![new_jti].replaced_by = jti]

\* service.py 128: record.replaced_by = new jti, flushed by the commit of line 129
\* (UPDATE refresh_tokens SET replaced_by = :jti WHERE id = :id)
set_linkage(jti, new_jti) == [sessions EXCEPT ![jti].replaced_by = new_jti]

\* service.py 127-132: the second commit of the rotation and the response
refresh_link(p) ==
    /\ At(p, "link")
    /\ IF decode_refresh_token(req[p].new_refresh_jwt, clock) # "ok"
       THEN /\ response' = Raise("refresh", req[p].token, "401",
                                 decode_refresh_token(req[p].new_refresh_jwt, clock))
            /\ UNCHANGED <<sessions, refreshTokens, accessTokens, companion>>
       ELSE LET access == create_access_token(req[p].token.sub, token_hex8, clock)
                new_jti == req[p].new_refresh_jwt.jti
            IN  /\ sessions' = set_linkage(req[p].token.jti, new_jti)
                /\ refreshTokens' = refreshTokens \cup {req[p].new_refresh_jwt}
                /\ accessTokens' = accessTokens \cup {access}
                /\ companion' = companion @@ (access.jti :> new_jti)
                /\ response' = [Respond("refresh", req[p].token, "200") EXCEPT
                                  !.user = req[p].token.sub,
                                  !.max_age = req[p].max_age]
    /\ req' = [req EXCEPT ![p] = Idle]
    /\ UNCHANGED <<clock, call, registry, parent>>

(***************************************************************************)
(* POST /auth/logout: logout (service.py 135-151).                         *)
(***************************************************************************)
\* Mutant of logout_returns_early: the try/except of lines 136-139 is missing and
\* the payload is read whether or not the token decodes.
logout_returns_early_undecoded(token, now) ==
    \/ token.jti = NULL
    \/ token.jti \notin DOMAIN sessions

\* service.py 136-149: TRUE when logout returns before writing anything
logout_returns_early(token, now) ==
    \/ decode_refresh_token(token, now) # "ok"
    \/ token.jti = NULL
    \/ token.jti \notin DOMAIN sessions

logout_lookup(p, token) ==
    /\ Free(p)
    /\ token \in Presentable
    /\ IF logout_returns_early(token, clock)
       THEN /\ response' = Respond("logout", token, "204")
            /\ UNCHANGED req
       ELSE /\ req' = [req EXCEPT ![p] =
                         [Idle EXCEPT !.op = "logout", !.pc = "revoke", !.token = token,
                                      !.revoked = sessions[token.jti].revoked]]
            /\ UNCHANGED response
    /\ UNCHANGED <<clock, call, registry, sessions, refreshTokens, accessTokens, parent, companion>>

\* Mutant of logout_commit: the db.commit() of line 151 is missing.
logout_commit_without_commit(p) ==
    /\ At(p, "revoke")
    /\ response' = [Respond("logout", req[p].token, "204") EXCEPT
                      !.seen = IF req[p].revoked THEN "revoked" ELSE "active"]
    /\ req' = [req EXCEPT ![p] = Idle]
    /\ UNCHANGED <<clock, call, registry, sessions, refreshTokens, accessTokens, parent, companion>>

\* service.py 150-151
logout_commit(p) ==
    /\ At(p, "revoke")
    /\ sessions' = mark_revoked(req[p].token.jti)
    /\ response' = [Respond("logout", req[p].token, "204") EXCEPT
                      !.seen = IF req[p].revoked THEN "revoked" ELSE "active"]
    /\ req' = [req EXCEPT ![p] = Idle]
    /\ UNCHANGED <<clock, call, registry, refreshTokens, accessTokens, parent, companion>>

(***************************************************************************)
(* A request behind Depends(get_current_user), e.g. GET /auth/me/profile.  *)
(***************************************************************************)
authorize(p, token) ==
    /\ Free(p)
    /\ token \in Presentable
    /\ response' =
         IF get_current_user(token, clock) = "401"
         THEN Raise("authorize", token, "401", unauthorized_detail(token, clock))
         ELSE [Respond("authorize", token, "200") EXCEPT
                 !.user = get_current_user(token, clock)]
    /\ UNCHANGED <<clock, call, registry, sessions, refreshTokens, accessTokens, req, parent, companion>>

(***************************************************************************)
(* The worker dies between two commits: the uncommitted changes of its     *)
(* session are lost, the committed ones stay, and no response is sent.     *)
(***************************************************************************)
Crash(p) ==
    /\ Quiet
    /\ req[p].pc # "idle"
    /\ req' = [req EXCEPT ![p] = Idle]
    /\ UNCHANGED <<clock, call, registry, sessions, refreshTokens, accessTokens, response, parent, companion>>

(***************************************************************************)
(* Time passes.  Only the order of the clock against the expiry instants   *)
(* is ever read, so the clock moves from one such instant, or the second   *)
(* after it, to a later one.                                               *)
(***************************************************************************)
Instants ==
    LET rows == {sessions[j].expires_at : j \in DOMAIN sessions}
    IN  {x \in rows \cup {e + 1 : e \in rows} : clock < x /\ x <= MaxTime}

Advance ==
    /\ Quiet
    /\ \E t \in Instants : clock' = t
    /\ UNCHANGED <<call, registry, sessions, refreshTokens, accessTokens, req, response, parent,
                   companion>>

\* The response has been sent.
Sent ==
    /\ ~Quiet
    /\ response' = NoResponse
    /\ UNCHANGED <<clock, call, registry, sessions, refreshTokens, accessTokens, req, parent, companion>>

Next ==
    \/ \E p \in Procs : \E i \in Identifiers : \E pw \in Passwords : login(p, i, pw)
    \/ \E p \in Procs : \E t \in Presentable : refresh_lookup(p, t)
    \/ \E p \in Procs : refresh_rotate(p)
    \/ \E p \in Procs : refresh_link(p)
    \/ \E p \in Procs : \E t \in Presentable : logout_lookup(p, t)
    \/ \E p \in Procs : logout_commit(p)
    \/ \E p \in Procs : \E t \in Presentable : authorize(p, t)
    \/ \E p \in Procs : Crash(p)
    \/ Advance
    \/ Sent

Spec == Init /\ [][Next]_vars

(***************************************************************************)
(* IdentityRegistry and RoleAuthority: POST /auth/register, PUT            *)
(* /auth/me/profile, POST /auth/bootstrap-admin, PUT /auth/users/../role   *)
(* (auth_router.py) over create_user, upsert_user_profile, bootstrap_admin *)
(* and set_user_role_by_id / _by_email (service.py).                       *)
(***************************************************************************)
\* The bodies of POST /auth/register the model sends: two users that do not
\* collide, and one that takes the username of the second and the email of the
\* first.
UserCreates ==
    { [username |-> "alice", email |-> "alice@x.com", password |-> "pw1"],
      [username |-> "bob",   email |-> "bob@x.com",   password |-> "pw2"],
      [username |-> "bob",   email |-> "alice@x.com", password |-> "pw1"] }

\* A body whose username is the email of the first body: UserCreate.username is a
\* plain str, and the pre-check and the unique constraints compare username with
\* username and email with email.
EmailAsUsername == [username |-> "alice@x.com", email |-> "carol@x.com", password |-> "pw2"]

\* uuid.uuid4(), the default of users.id and user_profiles.id: a value no row has
UserIdPool == <<"u1", "u2", "u3", "u4">>
uuid4_user == UserIdPool[Cardinality(DOMAIN users) + 1]
uuid4_profile == Cardinality(DOMAIN profiles) + 1

\* secrets.token_bytes(SALT_LEN_BYTES): one value stands for the random salt
token_bytes == [i \in 1..SALT_LEN_BYTES |-> 161]

Admins == {u \in DOMAIN users : users[u].role = "admin"}

\* service.py 24-33: the rows the pre-check query matches
existing_users(user) ==
    {u \in DOMAIN users :
        users[u].username = user.username \/ users[u].email = user.email}

\* Mutant of conflict_detail: the username is blamed whatever collided.
conflict_detail_blames_username(existing, user) == "Username already exists"

\* service.py 34-38: the detail of the 409 for the row .first() returned
conflict_detail(existing, user) ==
    IF users[existing].username = user.username
    THEN "Username already exists"
    ELSE "Email already exists"

\* service.py 24-38: the pre-check
register_check(p, user) ==
    /\ Free(p)
    /\ user \in UserCreates \cup {EmailAsUsername}
    /\ IF existing_users(user) # {}
       THEN /\ \E existing \in existing_users(user) :
                 response' = Raise("register", NoToken, "409", conflict_detail(existing, user))
            /\ UNCHANGED req
       ELSE /\ req' = [req EXCEPT ![p] =
                         [Idle EXCEPT !.op = "register", !.pc = "count", !.user = user]]
            /\ UNCHANGED response
    /\ UNCHANGED <<clock, call, registry, sessions, refreshTokens, accessTokens, parent, companion>>

\* Mutant of count_has_admin: "is there a user", for "is there an admin".
count_has_user == DOMAIN users # {}

\* service.py 43 and 212: query(User).filter(User.role == RoleEnum.admin).count() > 0
count_has_admin == Admins # {}

\* service.py 40-47
register_count(p) ==
    /\ At(p, "count")
    /\ req' = [req EXCEPT ![p].pc = "insert", ![p].has_admin = count_has_admin]
    /\ UNCHANGED <<clock, call, registry, sessions, refreshTokens, accessTokens, response, parent,
                   companion>>

\* Mutant of initial_role: every registered user is made admin.
initial_role_admin(has_admin) == "admin"

\* service.py 46
initial_role(has_admin) == IF ~has_admin THEN "admin" ELSE "driver"

\* Mutant of unique_violation: only users.username is unique.
unique_violation_username_only(user) ==
    \E u \in DOMAIN users : users[u].username = user.username

\* models.py 12-13: username and email are unique; the INSERT of line 51 raises
\* IntegrityError when a committed row holds either.
unique_violation(user) ==
    \E u \in DOMAIN users :
        users[u].username = user.username \/ users[u].email = user.email

\* Mutant of insert_user_and_profile: the user is committed by itself, the profile
\* is left out.
insert_user_only(id, user, role) ==
    <<users @@ (id :> User(user.username, user.email,
                           hash_password(user.password, token_bytes), role)),
      profiles>>

\* service.py 47-56: the two rows the one commit of line 56 writes
insert_user_and_profile(id, user, role) ==
    <<users @@ (id :> User(user.username, user.email,
                           hash_password(user.password, token_bytes), role)),
      profiles @@ (uuid4_profile :> UserProfile(id))>>

\* service.py 47-61.  An INSERT that meets an uncommitted row with the same key
\* waits for that transaction to end, so flush and commit act as one step.
register_insert(p) ==
    /\ At(p, "insert")
    /\ IF unique_violation(req[p].user)
       THEN /\ response' = Raise("register", NoToken, "409",
                                 "User with given username or email already exists")
            /\ UNCHANGED <<users, profiles>>
       ELSE LET id == uuid4_user
                rows == insert_user_and_profile(id, req[p].user, initial_role(req[p].has_admin))
            IN  /\ users' = rows[1]
                /\ profiles' = rows[2]
                /\ response' = [Respond("register", NoToken, "200") EXCEPT !.user = id]
    /\ req' = [req EXCEPT ![p] = Idle]
    /\ UNCHANGED <<clock, call, bootstrapped, sessions, refreshTokens, accessTokens, parent, companion>>

\* The bearer tokens the registry endpoints are called with: an access token minted
\* for a user id, as tests/conftest.py mints its Authorization headers
\* (create_access_token(str(user.id))), whether or not a row has the id; one that
\* has expired; one signed with another key.
Bearers ==
    {create_access_token(u, 0 - 1, clock) : u \in {"u1", "u2", "u3"}}
    \cup {create_access_token("u1", 0 - 2, clock - expires_minutes * 60 - 1)}
    \cup {[create_access_token("u1", 0 - 3, clock) EXCEPT !.key = "other"]}

(***************************************************************************)
(* POST /auth/bootstrap-admin (auth_router.py 76-86), bootstrap_admin      *)
(* (service.py 210-221): the count, then the write and its commit.         *)
(***************************************************************************)
bootstrap_count(p, token) ==
    /\ Free(p)
    /\ token \in Bearers
    /\ IF get_current_user(token, clock) = "401"
       THEN /\ response' = Raise("bootstrap", NoToken, "401", unauthorized_detail(token, clock))
            /\ UNCHANGED req
       ELSE IF count_has_admin
       THEN /\ response' = [Raise("bootstrap", NoToken, "403", "Admin already exists")
                              EXCEPT !.user = get_current_user(token, clock)]
            /\ UNCHANGED req
       ELSE /\ req' = [req EXCEPT ![p] =
                         [Idle EXCEPT !.op = "bootstrap", !.pc = "promote",
                                      !.current_user =
                                          [id |-> get_current_user(token, clock),
                                           role |-> users[get_current_user(token, clock)].role]]]
            /\ UNCHANGED response
    /\ UNCHANGED <<clock, call, registry, sessions, refreshTokens, accessTokens, parent, companion>>

\* Mutant of assign_role: every user gets the role.
assign_role_to_all(user_id, role) == [u \in DOMAIN users |-> [users[u] EXCEPT !.role = role]]

\* service.py 189/202/218: user.role = ..., flushed by the commit that follows
\* (UPDATE users SET role = :role WHERE id = :id)
assign_role(user_id, role) == [users EXCEPT ![user_id].role = role]

\* service.py 215-221
bootstrap_commit(p) ==
    /\ At(p, "promote")
    /\ IF req[p].current_user.id \notin DOMAIN users
       THEN /\ response' = Raise("bootstrap", NoToken, "404", "User not found")
            /\ UNCHANGED <<users, bootstrapped>>
       ELSE /\ users' = assign_role(req[p].current_user.id, "admin")
            /\ bootstrapped' = bootstrapped \cup {req[p].current_user.id}
            /\ response' = [Respond("bootstrap", NoToken, "200") EXCEPT
                              !.user = req[p].current_user.id]
    /\ req' = [req EXCEPT ![p] = Idle]
    /\ UNCHANGED <<clock, call, profiles, sessions, refreshTokens, accessTokens, parent, companion>>

(***************************************************************************)
(* RoleAuthority.setRole: set_user_role_by_id and set_user_role_by_email   *)
(* (service.py 184-207), which differ in the column the target is looked   *)
(* up by.                                                                  *)
(***************************************************************************)
\* service.py 185/198: the target rows the query matches
find_target(by, key) ==
    IF by = "id"
    THEN {u \in DOMAIN users : u = key}
    ELSE {u \in DOMAIN users : users[u].email = key}

\* Mutant of set_role_outcome: the demotion of the last admin is refused.
set_role_outcome_keeps_last_admin(by, key, role) ==
    IF find_target(by, key) = {} THEN "User not found"
    ELSE IF role \notin RoleEnum THEN "Invalid role"
    ELSE IF role = "driver" /\ Admins # {} /\ Admins \subseteq find_target(by, key)
    THEN "Last admin"
    ELSE "ok"

\* Mutant of set_role_outcome, the order of the spec: the role is validated first.
set_role_outcome_validates_first(by, key, role) ==
    IF role \notin RoleEnum THEN "Invalid role"
    ELSE IF find_target(by, key) = {} THEN "User not found"
    ELSE "ok"

\* service.py 185-191: the target is loaded (404), then RoleEnum(role) is built (400)
set_role_outcome(by, key, role) ==
    IF find_target(by, key) = {} THEN "User not found"
    ELSE IF role \notin RoleEnum THEN "Invalid role"
    ELSE "ok"

\* The response of the service to (by, key, role), and the users table it leaves.
set_role_response(op, by, key, role) ==
    LET answer ==
          IF set_role_outcome(by, key, role) = "User not found"
          THEN Raise(op, NoToken, "404", "User not found")
          ELSE IF set_role_outcome(by, key, role) = "Invalid role"
          THEN Raise(op, NoToken, "400", "Invalid role")
          ELSE [Respond(op, NoToken, "200") EXCEPT
                  !.user = CHOOSE u \in find_target(by, key) : TRUE]
    IN  [answer EXCEPT !.target = [by |-> by, key |-> key, role |-> role]]

set_role_users(by, key, role) ==
    IF set_role_outcome(by, key, role) = "ok"
    THEN assign_role(CHOOSE u \in find_target(by, key) : TRUE, role)
    ELSE users

\* The targets and roles the model asks for: both users by id and one by email, an
\* id and an email that no row has; a role outside RoleEnum.
TargetKeys == [id |-> {"u1", "u2", "u9"}, email |-> {"bob@x.com", "nobody@x.com"}]
Roles == RoleEnum \cup {"owner"}

\* A caller inside the process (fleet_router.create_driver, the tests) calls the
\* service function with any arguments.
set_user_role(p, by, key, role) ==
    /\ Free(p)
    /\ by \in DOMAIN TargetKeys /\ key \in TargetKeys[by] /\ role \in Roles
    /\ users' = set_role_users(by, key, role)
    /\ response' = set_role_response("set_user_role", by, key, role)
    /\ UNCHANGED <<clock, call, profiles, bootstrapped, sessions, refreshTokens, accessTokens, req,
                   parent, companion>>

\* Mutant of is_admin: the privilege is the one the account had when its token was
\* minted (the first account is created admin), not the role stored now.
is_admin_as_minted(user) == user.id = "u1"

\* Mutant of is_admin: every authenticated user passes.
is_admin_anyone(user) == TRUE

\* security.py 96-100
is_admin(user) == user.role = "admin"

\* schemas.RoleUpdate: role: Literal["admin", "driver"]
RoleUpdate == {"admin", "driver"}

\* PUT /auth/users/{user_id}/role and /auth/users/by-email/{email}/role
\* (auth_router.py 89-108): Depends(require_admin).
set_role_endpoint(p, token) ==
    /\ Free(p)
    /\ token \in Bearers
    /\ IF get_current_user(token, clock) = "401"
       THEN /\ response' = Raise("set_role", NoToken, "401", unauthorized_detail(token, clock))
            /\ UNCHANGED req
       ELSE LET user == [id |-> get_current_user(token, clock),
                         role |-> users[get_current_user(token, clock)].role]
            IN  IF ~is_admin(user)
                THEN /\ response' = [Raise("set_role", NoToken, "403", "Admin privileges required")
                                       EXCEPT !.user = user.id]
                     /\ UNCHANGED req
                ELSE /\ req' = [req EXCEPT ![p] =
                                  [Idle EXCEPT !.op = "set_role", !.pc = "assign",
                                               !.current_user = user]]
                     /\ UNCHANGED response
    /\ UNCHANGED <<clock, call, registry, sessions, refreshTokens, accessTokens, parent, companion>>

\* auth_router.py 89-108, after require_admin: the path parameter and the body are
\* validated, then the service function is called.  No other request can tell what
\* a request asks for before this step, so its target and role are drawn here.
set_role_commit(p, by, key, role) ==
    /\ At(p, "assign")
    /\ by \in DOMAIN TargetKeys /\ key \in TargetKeys[by] /\ role \in Roles
    /\ IF role \notin RoleUpdate
       THEN /\ response' = [Raise("set_role", NoToken, "422", "validation error") EXCEPT
                              !.user = req[p].current_user.id,
                              !.target = [by |-> by, key |-> key, role |-> role]]
            /\ UNCHANGED users
       ELSE /\ users' = set_role_users(by, key, role)
            /\ response' = set_role_response("set_role", by, key, role)
    /\ req' = [req EXCEPT ![p] = Idle]
    /\ UNCHANGED <<clock, call, profiles, bootstrapped, sessions, refreshTokens, accessTokens, parent,
                   companion>>

(***************************************************************************)
(* PUT /auth/me/profile (auth_router.py 68-74), upsert_user_profile        *)
(* (service.py 165-181).  "" is a NULL contact field.                      *)
(***************************************************************************)
\* schemas.UserProfileUpdate after model_dump(exclude_unset=True): the field is
\* left out, set to a name, or set to None.
ProfileUpdates ==
    { [unset |-> TRUE, first_name |-> ""],
      [unset |-> FALSE, first_name |-> "Al"],
      [unset |-> FALSE, first_name |-> ""] }

profiles_of(user_id) == {i \in DOMAIN profiles : profiles[i].user_id = user_id}

\* service.py 175-177
apply_update(profile, update) ==
    IF update.unset THEN profile ELSE [profile EXCEPT !.first_name = update.first_name]

\* service.py 166-179: the rows of user_profiles after the commit
upsert_rows(user_id, update) ==
    IF profiles_of(user_id) = {}
    THEN profiles @@ (uuid4_profile :> apply_update(UserProfile(user_id), update))
    ELSE LET i == CHOOSE i \in profiles_of(user_id) : TRUE
         IN  [profiles EXCEPT ![i] = apply_update(profiles[i], update)]

upsert_user_profile(p, token, update) ==
    /\ Free(p)
    /\ token \in Bearers
    /\ update \in ProfileUpdates
    /\ IF get_current_user(token, clock) = "401"
       THEN /\ response' = Raise("upsert_profile", NoToken, "401",
                                 unauthorized_detail(token, clock))
            /\ UNCHANGED profiles
       ELSE /\ profiles' = upsert_rows(get_current_user(token, clock), update)
            /\ response' = [Respond("upsert_profile", NoToken, "200") EXCEPT
                              !.user = get_current_user(token, clock)]
    /\ UNCHANGED <<clock, call, users, bootstrapped, sessions, refreshTokens, accessTokens, req,
                   parent, companion>>

(***************************************************************************)
(* The registry from the empty store: registration, the profile and the    *)
(* role endpoints, by NProcs concurrent workers.  None of them reads or    *)
(* writes refresh_tokens, and a bearer token is read for its signature,    *)
(* its exp and its sub only.                                               *)
(***************************************************************************)
InitRegistry ==
    /\ clock = 0
    /\ users = << >>
    /\ profiles = << >>
    /\ bootstrapped = {}
    /\ sessions = << >>
    /\ refreshTokens = {}
    /\ accessTokens = {}
    /\ req = [p \in Procs |-> Idle]
    /\ response = NoResponse
    /\ parent = << >>
    /\ companion = << >>
    /\ call = NoCall

\* The steps of worker p.
StepRegistry(p) ==
    \/ \E user \in UserCreates : register_check(p, user)
    \/ register_count(p)
    \/ register_insert(p)
    \/ \E t \in Bearers : bootstrap_count(p, t)
    \/ bootstrap_commit(p)
    \/ \E by \in DOMAIN TargetKeys : \E key \in TargetKeys[by] : \E role \in Roles :
          set_user_role(p, by, key, role)
    \/ \E t \in Bearers : set_role_endpoint(p, t)
    \/ \E by \in DOMAIN TargetKeys : \E key \in TargetKeys[by] : \E role \in Roles :
          set_role_commit(p, by, key, role)
    \/ \E t \in Bearers : \E update \in ProfileUpdates : upsert_user_profile(p, t, update)
    \/ Crash(p)

NextRegistry ==
    \/ \E p \in Procs : StepRegistry(p)
    \/ Sent

SpecRegistry == InitRegistry /\ [][NextRegistry]_vars

(***************************************************************************)
(* Sequential histories of the registry: a request is started only when no *)
(* other is in flight, so while one is in flight every step is its own.    *)
(***************************************************************************)
\* No other worker has a request in flight.
Turn(p) == \A q \in Procs \ {p} : req[q].pc = "idle"

NextSequential ==
    \/ \E p \in Procs : \E user \in UserCreates : Turn(p) /\ register_check(p, user)
    \/ \E p \in Procs : Turn(p) /\ register_count(p)
    \/ \E p \in Procs : Turn(p) /\ register_insert(p)
    \/ \E p \in Procs : \E t \in Bearers : Turn(p) /\ bootstrap_count(p, t)
    \/ \E p \in Procs : Turn(p) /\ bootstrap_commit(p)
    \/ \E p \in Procs : \E by \in DOMAIN TargetKeys : \E key \in TargetKeys[by] :
          \E role \in Roles : Turn(p) /\ set_user_role(p, by, key, role)
    \/ \E p \in Procs : \E t \in Bearers : Turn(p) /\ set_role_endpoint(p, t)
    \/ \E p \in Procs : \E by \in DOMAIN TargetKeys : \E key \in TargetKeys[by] :
          \E role \in Roles : Turn(p) /\ set_role_commit(p, by, key, role)
    \/ \E p \in Procs : \E t \in Bearers : \E update \in ProfileUpdates :
          Turn(p) /\ upsert_user_profile(p, t, update)
    \/ \E p \in Procs : Turn(p) /\ Crash(p)
    \/ Sent

SpecSequential == InitRegistry /\ [][NextSequential]_vars

(***************************************************************************)
(* Sequential histories of register and bootstrap-admin alone.  The count  *)
(* of bootstrap_admin (service.py 212-214) finds an admin in every store   *)
(* such a history reaches with a user to authenticate, so the request ends *)
(* in bootstrap_count and the step after it, bootstrap_commit, has no      *)
(* request to continue.                                                    *)
(***************************************************************************)
\* The bodies of register: those of UserCreates and that of a third user.
BootstrapUserCreates == UserCreates \cup {EmailAsUsername}

NextBootstrap ==
    \/ \E p \in Procs : \E user \in BootstrapUserCreates : Turn(p) /\ register_check(p, user)
    \/ \E p \in Procs : Turn(p) /\ register_count(p)
    \/ \E p \in Procs : Turn(p) /\ register_insert(p)
    \/ \E p \in Procs : \E t \in Bearers : Turn(p) /\ bootstrap_count(p, t)
    \/ \E p \in Procs : Turn(p) /\ Crash(p)
    \/ Sent

SpecBootstrap == InitRegistry /\ [][NextBootstrap]_vars

(***************************************************************************)
(* Registration followed by login: the users are those register has        *)
(* created from the empty store, among them one whose username is the      *)
(* email of another.                                                       *)
(***************************************************************************)
LoginUserCreates ==
    { [username |-> "alice", email |-> "alice@x.com", password |-> "pw1"],
      EmailAsUsername }

NextLogin ==
    \/ \E p \in Procs : \E user \in LoginUserCreates : register_check(p, user)
    \/ \E p \in Procs : register_count(p)
    \/ \E p \in Procs : register_insert(p)
    \/ \E p \in Procs : \E i \in Identifiers : \E pw \in Passwords : login(p, i, pw)
    \/ Sent

SpecLogin == InitRegistry /\ [][NextLogin]_vars

(***************************************************************************)
(* The functions of security.py called by themselves, as the tests of      *)
(* tests/test_security.py call them: hash_password and verify_password on  *)
(* any password and salt, verify_password on an encoded hash that          *)
(* hash_password did not return, create_refresh_token and                  *)
(* decode_refresh_token at any time of the token's life.                   *)
(***************************************************************************)
store == <<users, profiles, bootstrapped, sessions, refreshTokens, accessTokens, req, response,
           parent, companion>>

\* secrets.token_bytes(SALT_LEN_BYTES): salts of SALT_LEN_BYTES bytes, among them
\* bytes below 16 (a leading 0 in the hex text) and the byte of "$" (36).
SaltSeeds == {0, 9, 36, 250}
Salts == { [i \in 1..SALT_LEN_BYTES |-> (b + 17 * (i - 1)) % 256] : b \in SaltSeeds }

hash_password_call(password, salt) ==
    /\ password \in DOMAIN encode
    /\ salt \in Salts
    /\ call' = [NoCall EXCEPT !.fn = "hash_password", !.password = password, !.salt = salt,
                              !.hashed_password = hash_password(password, salt)]
    /\ UNCHANGED <<clock, store>>

\* bool as Python prints it
bool(b) == IF b THEN "True" ELSE "False"

\* verify_password on what hash_password returned
verify_password_call(plain_password) ==
    /\ call.fn \in {"hash_password", "verify_password"}
    /\ call.edit = "none"
    /\ plain_password \in DOMAIN encode
    /\ call' = [call EXCEPT !.fn = "verify_password", !.plain_password = plain_password,
                            !.result = bool(verify_password(plain_password, call.hashed_password))]
    /\ UNCHANGED <<clock, store>>

\* Encoded hashes that hash_password does not return, made from one it returned:
\* another algorithm tag, the tag in capitals, a field more, a field less, no
\* separator at all, a salt that is no hexadecimal text (a digit short, a letter
\* that is no digit), the empty string.
Edits == {"tag", "capitals", "four_fields", "two_fields", "one_field", "salt_odd", "salt_letter",
          "empty"}

edited(hashed_password, edit) ==
    LET fields == split(hashed_password, "$")
        join(a, b, c) == a \o <<"$">> \o b \o <<"$">> \o c
    IN  CASE edit = "tag" -> join(<<"m", "d", "5">>, fields[2], fields[3])
          [] edit = "capitals" -> join(<<"S", "H", "A", "2", "5", "6">>, fields[2], fields[3])
          [] edit = "four_fields" -> hashed_password \o <<"$">>
          [] edit = "two_fields" -> fields[1] \o <<"$">> \o fields[2] \o fields[3]
          [] edit = "one_field" -> fields[1] \o fields[2] \o fields[3]
          [] edit = "salt_odd" -> join(fields[1], Tail(fields[2]), fields[3])
          [] edit = "salt_letter" -> join(fields[1], <<"g">> \o Tail(fields[2]), fields[3])
          [] edit = "empty" -> << >>

verify_password_edited(plain_password, edit) ==
    /\ call.fn \in {"hash_password", "verify_password"}
    /\ call.edit = "none"
    /\ plain_password \in DOMAIN encode
    /\ edit \in Edits
    /\ call' = [call EXCEPT !.fn = "verify_password", !.plain_password = plain_password,
                            !.edit = edit,
                            !.hashed_password = edited(call.hashed_password, edit),
                            !.result = bool(verify_password(plain_password,
                                                            edited(call.hashed_password, edit)))]
    /\ UNCHANGED <<clock, store>>

\* The subjects and jtis tokens are minted with: str(user.id) and token_hex(16) in
\* the service, any str in the tests.
Subjects == {"u1", "123e4567-e89b-12d3-a456-426614174000", ""}
Jtis == {"abcd", "u1", ""}

\* Tokens are minted at the first instant of the clock, which leaves the model the
\* whole life of each of them.
create_refresh_token_call(subject, jti) ==
    /\ clock = 0
    /\ subject \in Subjects
    /\ jti \in Jtis
    /\ call' = [NoCall EXCEPT !.fn = "create_refresh_token", !.subject = subject, !.jti = jti,
                              !.now = clock,
                              !.token = create_refresh_token(subject, jti, days, clock)]
    /\ UNCHANGED <<clock, store>>

\* What decode_refresh_token is given: the token minted, the same payload signed
\* with another key, an access token of the same subject.
presentable(token) ==
    { token,
      [token EXCEPT !.key = "other"],
      create_access_token(token.sub, token.jti, token.exp - days * 86400) }

\* jwt.decode returns the claims of the token
jwt_payload(token) == [sub |-> token.sub, jti |-> token.jti, typ |-> token.typ]

decode_refresh_token_call(presented) ==
    /\ call.fn \in {"create_refresh_token", "decode_refresh_token"}
    /\ presented \in presentable(call.token)
    /\ call' = [call EXCEPT !.fn = "decode_refresh_token", !.presented = presented,
                            !.now = clock,
                            !.result = decode_refresh_token(presented, clock),
                            !.payload = IF decode_refresh_token(presented, clock) = "ok"
                                        THEN jwt_payload(presented)
                                        ELSE NoPayload]
    /\ UNCHANGED <<clock, store>>

\* Time passes, up to the exp of the minted token and the access token and the
\* second after each.
tick ==
    /\ call.fn \in {"create_refresh_token", "decode_refresh_token"}
    /\ \E t \in UNION {{x.exp, x.exp + 1} : x \in presentable(call.token)} :
          clock < t /\ t <= MaxTime /\ clock' = t
    /\ UNCHANGED <<call, store>>

NextSecurity ==
    \/ \E password \in DOMAIN encode : \E salt \in Salts : hash_password_call(password, salt)
    \/ \E plain_password \in DOMAIN encode : verify_password_call(plain_password)
    \/ \E plain_password \in DOMAIN encode : \E edit \in Edits :
          verify_password_edited(plain_password, edit)
    \/ \E subject \in Subjects : \E jti \in Jtis : create_refresh_token_call(subject, jti)
    \/ \E presented \in presentable(call.token) : decode_refresh_token_call(presented)
    \/ tick

SpecSecurity == InitRegistry /\ [][NextSecurity]_vars

(***************************************************************************)
(* Notions the properties are stated with.                                 *)
(***************************************************************************)
\* The login session a row descends from: a login-created session and the
\* sessions created by rotating it make one logical session.
RECURSIVE Root(_)
Root(j) == IF parent[j] = NULL THEN j ELSE Root(parent[j])

\* Non-revoked and non-expired, as refresh_access reads it.
Valid(j) == ~sessions[j].revoked /\ sessions[j].expires_at > clock

Rotated(j) == sessions[j].revoked /\ sessions[j].replaced_by # NULL
Revoked(j) == sessions[j].revoked /\ sessions[j].replaced_by = NULL

\* The refresh tokens handed out by a 200 of refresh for the token of session j.
IssuedByRotating(j) == {t \in refreshTokens : parent[t.jti] = j}

(***************************************************************************)
(* C1.  Two refresh calls presenting the same refresh token of an Active   *)
(* session, in any interleaving: not both succeed.  Stated over the        *)
(* tokens handed out: at most one refresh token was ever issued by         *)
(* rotating a given session.  The code lets both calls pass the lookup     *)
(* before either commits, and both commit.                                 *)
(***************************************************************************)
C1_OneRefreshWins ==
    \A j \in DOMAIN sessions : Cardinality(IssuedByRotating(j)) <= 1

(***************************************************************************)
(* C3.  Each logical session holds at most one session that is             *)
(* non-revoked and non-expired, in every reachable state of the store.     *)
(***************************************************************************)
C3_OneValidPerLogicalSession ==
    \A r \in DOMAIN sessions :
        Cardinality({j \in DOMAIN sessions : Root(j) = r /\ Valid(j)}) <= 1

(***************************************************************************)
(* C5.  In every committed state of the store, a session whose replaced_by *)
(* is set has revoked = true.                                              *)
(***************************************************************************)
C5_ReplacedImpliesRevoked ==
    \A j \in DOMAIN sessions : sessions[j].replaced_by # NULL => sessions[j].revoked

C5_Witness ==
    \E j \in DOMAIN sessions : Rotated(j) /\ sessions[j].replaced_by \in DOMAIN sessions

(***************************************************************************)
(* C2.  Once refresh(token) has succeeded or the token's session has been  *)
(* revoked, every later refresh presenting that token fails Unauthorized:  *)
(* a 200 of refresh leaves the token's session revoked, a revoked session  *)
(* stays revoked whatever step follows, and a refresh whose lookup finds   *)
(* the session revoked answers 401 and goes no further.                    *)
(***************************************************************************)
Burnt(t) == t.jti \in DOMAIN sessions /\ sessions[t.jti].revoked

C2_ReplayRejected ==
    [][ /\ \A j \in DOMAIN sessions :
              sessions[j].revoked => j \in DOMAIN sessions' /\ sessions'[j].revoked
        /\ (response'.op = "refresh" /\ response'.status = "200")
              => sessions'[response'.token.jti].revoked
        /\ \A p \in Procs : \A t \in Presentable :
              (refresh_lookup(p, t) /\ Burnt(t))
                 => /\ response'.op = "refresh" /\ response'.token = t
                    /\ response'.status = "401"
                    /\ req' = req ]_vars

\* A token whose refresh succeeded is presented again and refused.
C2_Witness ==
    /\ response.op = "refresh" /\ response.status = "401"
    /\ response.token \in refreshTokens
    /\ Rotated(response.token.jti)
    /\ IssuedByRotating(response.token.jti) # {}

(***************************************************************************)
(* C4.  After logout(token) has completed for a token of an existing       *)
(* session, the session is revoked and stays so; a refresh(token) whose    *)
(* lookup comes after that fails Unauthorized; a logout of a token whose   *)
(* session is already revoked returns 204 and changes no row.              *)
(***************************************************************************)
C4_LogoutThenRefreshFails ==
    [][ \A p \in Procs :
          /\ logout_commit(p) => sessions'[req[p].token.jti].revoked
          /\ \A j \in DOMAIN sessions :
                sessions[j].revoked => j \in DOMAIN sessions' /\ sessions'[j].revoked
          /\ \A t \in Presentable :
                /\ (refresh_lookup(p, t) /\ Burnt(t))
                      => response'.op = "refresh" /\ response'.status = "401"
                /\ (logout_lookup(p, t) /\ Burnt(t))
                      => sessions' = sessions /\ response'.status \in {"none", "204"}
                /\ (logout_commit(p) /\ req[p].token = t /\ Burnt(t))
                      => sessions' = sessions /\ response'.status = "204" ]_vars

\* The session was revoked by a logout (it was never rotated), and a refresh
\* presenting its token is refused.
C4_Witness ==
    /\ response.op = "refresh" /\ response.status = "401"
    /\ response.detail = "Token revoked or not found"
    /\ response.token \in refreshTokens
    /\ Revoked(response.token.jti)
    /\ \A j \in DOMAIN sessions : parent[j] # response.token.jti

\* A logout that found its session already logged out has answered 204.
C4_WitnessAgain ==
    /\ response.op = "logout" /\ response.status = "204" /\ response.seen = "revoked"
    /\ Revoked(response.token.jti)
    /\ \A j \in DOMAIN sessions : parent[j] # response.token.jti

(***************************************************************************)
(* C6.  Rotated and Revoked are terminal: once a committed row has         *)
(* revoked = true, no later operation changes its revoked or its           *)
(* replaced_by, so a Revoked session never becomes Rotated and replaced_by *)
(* is written at most once.  The one write left out of "later operation"   *)
(* is the second commit of the very rotation whose first commit revoked    *)
(* the row, on a row still unlinked.  The code's writes are not            *)
(* conditional on what the row holds: a rotation that passed its lookup    *)
(* links a row that a logout or another rotation has revoked meanwhile.    *)
(***************************************************************************)
CompletesOwnRotation(j) ==
    \E p \in Procs :
        /\ refresh_link(p)
        /\ req[p].token.jti = j
        /\ req[p].flipped
        /\ sessions[j].replaced_by = NULL

C6_TerminalStates ==
    [][ \A j \in DOMAIN sessions :
          sessions[j].revoked =>
             \/ /\ sessions'[j].revoked = sessions[j].revoked
                /\ sessions'[j].replaced_by = sessions[j].replaced_by
             \/ CompletesOwnRotation(j) ]_vars

(***************************************************************************)
(* C7.  A refresh that answers 200 for the token of session S: its first   *)
(* commit inserted exactly one row N; after its second commit S is         *)
(* revoked with replaced_by = N, N is non-revoked with replaced_by null    *)
(* and belongs to the user of S, and the refresh token it returns carries  *)
(* the jti of N and that user as subject.                                  *)
(***************************************************************************)
C7_RotationResult ==
    [][ \A p \in Procs :
          /\ refresh_rotate(p) =>
                LET N == req'[p].new_refresh_jwt.jti
                IN  /\ N \notin DOMAIN sessions
                    /\ DOMAIN sessions' = DOMAIN sessions \cup {N}
          /\ (refresh_link(p) /\ response'.status = "200") =>
                LET S == req[p].token.jti
                    N == req[p].new_refresh_jwt.jti
                IN  /\ DOMAIN sessions' = DOMAIN sessions
                    /\ parent[N] = S
                    /\ sessions'[S].revoked
                    /\ sessions'[S].replaced_by = N
                    /\ ~sessions'[N].revoked
                    /\ sessions'[N].replaced_by = NULL
                    /\ sessions'[N].user_id = sessions'[S].user_id
                    /\ refreshTokens' = refreshTokens \cup {req[p].new_refresh_jwt}
                    /\ req[p].new_refresh_jwt \notin refreshTokens
                    /\ req[p].new_refresh_jwt.typ = "refresh"
                    /\ req[p].new_refresh_jwt.sub = sessions'[S].user_id ]_vars

C7_Witness ==
    /\ response.op = "refresh" /\ response.status = "200"
    /\ Rotated(response.token.jti)
    /\ \E t \in refreshTokens :
          /\ t.jti = sessions[response.token.jti].replaced_by
          /\ t.sub = response.token.sub
          /\ Valid(t.jti)

(***************************************************************************)
(* C8.  refresh fails Unauthorized when the token's session is not found,  *)
(* is revoked, or has expires_at <= now (expires_at = now included,        *)
(* whatever the revoked flag), and then no row is inserted or modified.    *)
(***************************************************************************)
C8_RefreshRejects ==
    [][ \A p \in Procs : \A t \in Presentable :
          ( /\ refresh_lookup(p, t)
            /\ \/ t.jti \notin DOMAIN sessions
               \/ sessions[t.jti].revoked
               \/ sessions[t.jti].expires_at <= clock )
          => /\ response'.op = "refresh" /\ response'.token = t
             /\ response'.status = "401"
             /\ sessions' = sessions
             /\ req' = req ]_vars

\* The instant expires_at = now, on a session that is not revoked.
C8_Witness ==
    /\ response.op = "refresh" /\ response.status = "401"
    /\ response.detail = "Token expired"
    /\ ~sessions[response.token.jti].revoked
    /\ sessions[response.token.jti].expires_at = clock

C8_WitnessNotFound ==
    /\ response.op = "refresh" /\ response.status = "401"
    /\ response.detail = "Token revoked or not found"
    /\ response.token.jti \notin DOMAIN sessions

(***************************************************************************)
(* C9.  A refresh token (typ = "refresh") presented as the bearer          *)
(* credential is rejected and does not authenticate its subject.           *)
(* get_current_user decodes the token and never reads typ.                 *)
(***************************************************************************)
C9_RefreshTokenIsNoBearer ==
    (response.op = "authorize" /\ response.token.typ = "refresh")
        => response.status = "401"

(***************************************************************************)
(* C10.  An access token handed out by login or refresh authenticates its  *)
(* subject as long as its own exp has not passed, whatever has happened    *)
(* to the refresh sessions since.                                          *)
(***************************************************************************)
C10_AccessTokenOutlivesSession ==
    (response.op = "authorize" /\ response.token \in accessTokens
                               /\ response.token.exp >= clock)
        => (response.status = "200" /\ response.user = response.token.sub)

\* The session issued together with the access token has been revoked.
C10_Witness ==
    /\ response.op = "authorize" /\ response.status = "200"
    /\ response.token \in accessTokens
    /\ sessions[companion[response.token.jti]].revoked

(***************************************************************************)
(* C11.  logout never raises: for a token that fails to decode (bad        *)
(* signature, expired, not of refresh type), a token without jti, or a     *)
(* token whose session does not exist, logout answers 204 at once, writes  *)
(* no session row and goes no further; and no logout is ever answered by   *)
(* anything but 204.                                                       *)
(***************************************************************************)
Undecodable(t) ==
    \/ t.key # jwt_secret
    \/ t.exp < clock
    \/ t.typ # "refresh"

C11_LogoutNeverRaises ==
    [][ /\ \A p \in Procs : \A t \in Presentable :
              ( /\ logout_lookup(p, t)
                /\ (Undecodable(t) \/ t.jti = NULL \/ t.jti \notin DOMAIN sessions) )
              => /\ response'.op = "logout" /\ response'.token = t
                 /\ response'.status = "204"
                 /\ sessions' = sessions
                 /\ req' = req
        /\ response'.op = "logout" => response'.status = "204" ]_vars

\* A well-signed refresh token whose session does not exist.
C11_Witness ==
    /\ response.op = "logout" /\ response.status = "204"
    /\ ~Undecodable(response.token)
    /\ response.token.jti # NULL
    /\ response.token.jti \notin DOMAIN sessions

\* An expired token, one signed with another key, one that is no refresh token,
\* one without jti.
C11_WitnessExpired ==
    /\ response.op = "logout" /\ response.status = "204"
    /\ response.token.key = jwt_secret /\ response.token.exp < clock

C11_WitnessBadSignature ==
    /\ response.op = "logout" /\ response.status = "204"
    /\ response.token.key # jwt_secret

C11_WitnessNotRefresh ==
    /\ response.op = "logout" /\ response.status = "204"
    /\ response.token.key = jwt_secret /\ response.token.typ # "refresh"

C11_WitnessNoJti ==
    /\ response.op = "logout" /\ response.status = "204"
    /\ ~Undecodable(response.token) /\ response.token.jti = NULL

(***************************************************************************)
(* Notions the registry properties are stated with.                        *)
(***************************************************************************)
\* The bearer token authenticates a user: get_current_user, read off the token.
Authenticates(t) == t.key = jwt_secret /\ t.exp >= clock /\ t.sub \in DOMAIN users

\* The row a step has inserted into users.
Created == CHOOSE u \in DOMAIN users' : u \notin DOMAIN users

(***************************************************************************)
(* C12.  bootstrapAdmin succeeds for at most one caller system-wide, over  *)
(* any execution: concurrent calls by different users, intervening setRole *)
(* calls.  The count of line 212 and the write of line 218 are two         *)
(* statements with nothing between them to keep a second caller out.       *)
(***************************************************************************)
C12_OneBootstrap == Cardinality(bootstrapped) <= 1

(***************************************************************************)
(* C13.  bootstrapAdmin by an authenticated caller while some user has     *)
(* role admin answers 403 and changes no user; while no user has role      *)
(* admin it goes on to its write, which sets the caller's role to admin    *)
(* and changes no other user.                                              *)
(***************************************************************************)
C13_BootstrapOutcome ==
    [][ \A p \in Procs :
          /\ \A t \in Bearers :
                (bootstrap_count(p, t) /\ Authenticates(t)) =>
                    /\ users' = users
                    /\ IF \E u \in DOMAIN users : users[u].role = "admin"
                       THEN /\ response'.op = "bootstrap" /\ response'.status = "403"
                            /\ req' = req
                       ELSE /\ response' = response
                            /\ req'[p].pc = "promote"
                            /\ req'[p].current_user.id = t.sub
          /\ (bootstrap_commit(p) /\ req[p].current_user.id \in DOMAIN users) =>
                /\ DOMAIN users' = DOMAIN users
                /\ users'[req[p].current_user.id] =
                      [users[req[p].current_user.id] EXCEPT !.role = "admin"]
                /\ \A u \in DOMAIN users : u # req[p].current_user.id => users'[u] = users[u]
                /\ response'.op = "bootstrap" /\ response'.status = "200"
                /\ response'.user = req[p].current_user.id ]_vars

\* A second user is refused while the first is admin.
C13_Witness ==
    /\ response.op = "bootstrap" /\ response.status = "403"
    /\ users[response.user].role = "driver"
    /\ \E u \in DOMAIN users : u # response.user /\ users[u].role = "admin"

\* A caller has been promoted next to a user that stays a driver.
C13_WitnessPromoted ==
    /\ response.op = "bootstrap" /\ response.status = "200"
    /\ users[response.user].role = "admin"
    /\ \E u \in DOMAIN users : users[u].role = "driver"

(***************************************************************************)
(* C14.  Register calls running concurrently against a store without an    *)
(* admin create at most one admin: no register commits a row with role     *)
(* admin into a store that holds an admin.  The count of line 43 and the   *)
(* commit of line 56 are apart, and both calls count zero.                 *)
(***************************************************************************)
C14_OneAdminFromRegister ==
    [][ \A p \in Procs :
          (register_insert(p) /\ DOMAIN users' # DOMAIN users /\ users'[Created].role = "admin")
             => ~ \E u \in DOMAIN users : users[u].role = "admin" ]_vars

(***************************************************************************)
(* C15.  As claimed: over any sequential history of register, setRole and  *)
(* bootstrapAdmin, register assigns role admin exactly when the user it    *)
(* creates is the first user ever created (no row is ever deleted, so:     *)
(* when users is empty), and driver otherwise.                             *)
(***************************************************************************)
C15_AdminIffFirstUser ==
    [][ \A p \in Procs :
          (register_insert(p) /\ DOMAIN users' # DOMAIN users)
             => users'[Created].role = IF DOMAIN users = {} THEN "admin" ELSE "driver" ]_vars

(***************************************************************************)
(* C15, amended.  Over any sequential history, register assigns role admin *)
(* exactly when no user has role admin at the time of the call, and driver *)
(* otherwise.                                                              *)
(***************************************************************************)
C15_AdminIffNoAdmin ==
    [][ \A p \in Procs :
          (register_insert(p) /\ DOMAIN users' # DOMAIN users)
             => users'[Created].role =
                   IF \E u \in DOMAIN users : users[u].role = "admin" THEN "driver" ELSE "admin" ]_vars

\* A register has made an admin of a user that is not the first one.
C15_Witness ==
    /\ response.op = "register" /\ response.status = "200"
    /\ users[response.user].role = "admin"
    /\ Cardinality(DOMAIN users) = 2

\* A register has made a driver.
C15_WitnessDriver ==
    /\ response.op = "register" /\ response.status = "200"
    /\ users[response.user].role = "driver"

(***************************************************************************)
(* C16.  register with a username equal to an existing user's username, or *)
(* an email equal to an existing user's email, answers 409 with a detail   *)
(* that names a field that does collide, and leaves users and              *)
(* user_profiles unchanged.                                                *)
(***************************************************************************)
C16_RegisterConflict ==
    [][ \A p \in Procs : \A user \in UserCreates :
          ( /\ register_check(p, user)
            /\ \E u \in DOMAIN users :
                  users[u].username = user.username \/ users[u].email = user.email )
          => /\ response'.op = "register" /\ response'.status = "409"
             /\ \/ /\ response'.detail = "Username already exists"
                   /\ \E u \in DOMAIN users : users[u].username = user.username
                \/ /\ response'.detail = "Email already exists"
                   /\ \E u \in DOMAIN users : users[u].email = user.email
             /\ users' = users /\ profiles' = profiles
             /\ req' = req ]_vars

\* A used email under another username.
C16_Witness ==
    /\ response.op = "register" /\ response.status = "409"
    /\ response.detail = "Email already exists"

C16_WitnessUsername ==
    /\ response.op = "register" /\ response.status = "409"
    /\ response.detail = "Username already exists"

(***************************************************************************)
(* C17.  Two registers with the same username or the same email that both  *)
(* passed the pre-check: the one that inserts second is answered 409 and   *)
(* leaves no users row and no user_profiles row, so in every state         *)
(* usernames are pairwise distinct and emails are pairwise distinct.       *)
(***************************************************************************)
C17_RegisterRace ==
    [][ /\ \A p \in Procs :
              ( /\ register_insert(p)
                /\ \E u \in DOMAIN users :
                      \/ users[u].username = req[p].user.username
                      \/ users[u].email = req[p].user.email )
              => /\ response'.op = "register" /\ response'.status = "409"
                 /\ users' = users /\ profiles' = profiles
        /\ \A u, v \in DOMAIN users' :
              u # v => /\ users'[u].username # users'[v].username
                       /\ users'[u].email # users'[v].email ]_vars

\* The loser of the race has been answered; one row holds the contested key.
C17_Witness ==
    /\ response.op = "register" /\ response.status = "409"
    /\ response.detail = "User with given username or email already exists"
    /\ Cardinality(DOMAIN users) = 1

(***************************************************************************)
(* C18.  In every committed state every users row has exactly one          *)
(* user_profiles row, and every user_profiles row belongs to a users row.  *)
(***************************************************************************)
C18_UserHasOneProfile ==
    /\ \A u \in DOMAIN users : Cardinality(profiles_of(u)) = 1
    /\ \A i \in DOMAIN profiles : profiles[i].user_id \in DOMAIN users

\* Two users, the profile of one of them updated.
C18_Witness ==
    /\ Cardinality(DOMAIN users) = 2
    /\ \E i \in DOMAIN profiles : profiles[i].first_name = "Al"
    /\ \E u \in DOMAIN users : users[u].role = "driver"

(***************************************************************************)
(* C19.  As claimed: setRole validates the role before it loads the        *)
(* target, so a role outside {admin, driver} yields InvalidRole also when  *)
(* the target does not exist.                                              *)
(***************************************************************************)
C19_InvalidRoleFirst ==
    [][ LET t == response'.target
        IN  \A p \in Procs :
               set_user_role(p, t.by, t.key, t.role) =>
                  IF t.role \notin {"admin", "driver"}
                  THEN /\ response'.status = "400" /\ response'.detail = "Invalid role"
                       /\ users' = users
                  ELSE IF ~ \E u \in DOMAIN users :
                              IF t.by = "id" THEN u = t.key ELSE users[u].email = t.key
                  THEN /\ response'.status = "404" /\ response'.detail = "User not found"
                       /\ users' = users
                  ELSE /\ response'.status = "200"
                       /\ users'[response'.user].role = t.role ]_vars

(***************************************************************************)
(* C19, amended.  setRole loads the target before it validates the role:   *)
(* an unknown target yields NotFound whatever the role, a role outside     *)
(* {admin, driver} with an existing target yields InvalidRole, and in both *)
(* error cases no user's role changes; with a valid role and an existing   *)
(* target only that user's role changes, to the requested value.           *)
(***************************************************************************)
TargetExists(by, key) ==
    \E u \in DOMAIN users : IF by = "id" THEN u = key ELSE users[u].email = key

SetRoleContract(by, key, role) ==
    IF ~TargetExists(by, key)
    THEN /\ response'.status = "404" /\ response'.detail = "User not found"
         /\ users' = users
    ELSE IF role \notin {"admin", "driver"}
    THEN /\ response'.status = "400" /\ response'.detail = "Invalid role"
         /\ users' = users
    ELSE /\ response'.status = "200"
         /\ DOMAIN users' = DOMAIN users
         /\ \A u \in DOMAIN users :
               users'[u] = IF (IF by = "id" THEN u = key ELSE users[u].email = key)
                           THEN [users[u] EXCEPT !.role = role]
                           ELSE users[u]

\* A step of setRole answers the request; its arguments are read off the answer.
C19_TargetLoadedFirst ==
    [][ LET t == response'.target
        IN  \A p \in Procs :
               /\ set_user_role(p, t.by, t.key, t.role) => SetRoleContract(t.by, t.key, t.role)
               /\ (set_role_commit(p, t.by, t.key, t.role) /\ t.role \in {"admin", "driver"})
                     => SetRoleContract(t.by, t.key, t.role) ]_vars

\* An unknown target with a role outside the enum has been answered NotFound, in
\* a store that has users.
C19_Witness ==
    /\ response.op = "set_user_role" /\ response.status = "404"
    /\ response.target.role \notin {"admin", "driver"}
    /\ DOMAIN users # {}

C19_WitnessInvalidRole ==
    /\ response.op = "set_user_role" /\ response.status = "400"

C19_WitnessChanged ==
    /\ response.op = "set_role" /\ response.status = "200"
    /\ users[response.user].role = "admin"
    /\ Cardinality(Admins) = 2

(***************************************************************************)
(* C20.  A role change through the role endpoints takes effect only for a  *)
(* caller that require_admin found to have role admin: an authenticated    *)
(* caller whose role is driver is answered 403, no user's role changes and *)
(* the request goes no further; the write of the endpoint is made by a     *)
(* request whose caller was loaded with role admin.                        *)
(***************************************************************************)
C20_AdminOnlyRoleChange ==
    [][ \A p \in Procs :
          /\ \A t \in Bearers :
                set_role_endpoint(p, t) =>
                   /\ users' = users
                   /\ (Authenticates(t) /\ users[t.sub].role # "admin")
                         => /\ response'.op = "set_role" /\ response'.status = "403"
                            /\ req' = req
                   /\ req'[p].pc = "assign"
                         => Authenticates(t) /\ users[t.sub].role = "admin"
          /\ set_role_commit(p, response'.target.by, response'.target.key, response'.target.role)
                => req[p].current_user.role = "admin" ]_vars

\* A driver has been refused while another user is admin.
C20_Witness ==
    /\ response.op = "set_role" /\ response.status = "403"
    /\ users[response.user].role = "driver"

\* An admin has changed the role of another user.
C20_WitnessChanged ==
    /\ response.op = "set_role" /\ response.status = "200"
    /\ users[response.user].role = "driver"
    /\ Cardinality(Admins) = 1
    /\ bootstrapped = {}

(***************************************************************************)
(* C21.  login succeeds exactly when the identifier is the username or the *)
(* email of a registered user and the secret verifies against that user's  *)
(* stored hash: it then answers 200 for such a user and inserts exactly    *)
(* one session row, Active and owned by that user, leaving every other row *)
(* as it was; in every other case it answers 401 "Invalid credentials" and *)
(* changes no stored state.  The code verifies the secret against the one  *)
(* row .first() returned: when the identifier is the username of one user  *)
(* and the email of another, the login of the user that was not returned   *)
(* fails.                                                                  *)
(***************************************************************************)
HasCredentials(u, identifier, password) ==
    /\ (users[u].username = identifier \/ users[u].email = identifier)
    /\ verify_password(password, users[u].password_hash)

Active(j) ==
    /\ ~sessions[j].revoked
    /\ sessions[j].replaced_by = NULL
    /\ sessions[j].expires_at > clock

C21_LoginOutcome ==
    [][ \A p \in Procs : \A i \in Identifiers : \A pw \in Passwords :
          login(p, i, pw) =>
             IF \E u \in DOMAIN users : HasCredentials(u, i, pw)
             THEN /\ response'.op = "login" /\ response'.status = "200"
                  /\ HasCredentials(response'.user, i, pw)
                  /\ \E j \in DOMAIN sessions' :
                        /\ j \notin DOMAIN sessions
                        /\ DOMAIN sessions' = DOMAIN sessions \cup {j}
                        /\ sessions'[j].user_id = response'.user
                        /\ Active(j)'
                  /\ \A j \in DOMAIN sessions : sessions'[j] = sessions[j]
                  /\ users' = users /\ profiles' = profiles
             ELSE /\ response'.op = "login" /\ response'.status = "401"
                  /\ response'.detail = "Invalid credentials"
                  /\ sessions' = sessions /\ users' = users /\ profiles' = profiles
                  /\ refreshTokens' = refreshTokens /\ accessTokens' = accessTokens ]_vars

(***************************************************************************)
(* C22.  For every secret s and every salt, verify(s, hash(s)) is true,    *)
(* and for every secret s2 other than s, verify(s2, hash(s)) is false      *)
(* (the digest being collision-free): verify_password on what              *)
(* hash_password returned for s answers True exactly for s.                *)
(***************************************************************************)
C22_VerifyRoundTrip ==
    (call.fn = "verify_password" /\ call.edit = "none")
        => (call.result = "True" <=> call.plain_password = call.password)

\* The secret itself has verified, under a salt with bytes below 16.
C22_Witness ==
    /\ call.fn = "verify_password" /\ call.edit = "none"
    /\ call.password = "pw1" /\ call.plain_password = "pw1"
    /\ call.salt[1] = 9
    /\ call.result = "True"

\* A secret that is a prefix of the hashed one has been refused, and so has the
\* empty secret.
C22_WitnessPrefix ==
    /\ call.fn = "verify_password" /\ call.edit = "none"
    /\ call.password = "pw1" /\ call.plain_password = "pw"
    /\ call.result = "False"

C22_WitnessEmpty ==
    /\ call.fn = "verify_password" /\ call.edit = "none"
    /\ call.password = "pw" /\ call.plain_password = ""
    /\ call.result = "False"

(***************************************************************************)
(* C23.  verify returns false, and raises nothing, for every secret and    *)
(* every encoded hash that is not exactly three "$"-delimited fields, or   *)
(* whose algorithm tag is not "sha256", or whose salt is not hexadecimal   *)
(* text: a character that is neither a hexadecimal digit nor white space,  *)
(* or an odd number of digits.                                             *)
(***************************************************************************)
Separators(string) == {i \in 1..Len(string) : string[i] = "$"}

NotHex(string) ==
    \/ \E i \in 1..Len(string) : ~is_hex_digit(string[i]) /\ string[i] # " "
    \/ Cardinality({i \in 1..Len(string) : is_hex_digit(string[i])}) % 2 = 1

Unverifiable(encoded) ==
    \/ Cardinality(Separators(encoded)) # 2
    \/ LET a == CHOOSE i \in Separators(encoded) : \A k \in Separators(encoded) : i <= k
           b == CHOOSE i \in Separators(encoded) : \A k \in Separators(encoded) : k <= i
       IN  \/ SubSeq(encoded, 1, a - 1) # <<"s", "h", "a", "2", "5", "6">>
           \/ NotHex(SubSeq(encoded, a + 1, b - 1))

C23_UnverifiableIsFalse ==
    (call.fn = "verify_password" /\ Unverifiable(call.hashed_password))
        => call.result = "False"

\* The right secret, against its own hash under another algorithm tag.
C23_Witness ==
    /\ call.fn = "verify_password" /\ call.edit = "tag"
    /\ call.plain_password = call.password
    /\ Unverifiable(call.hashed_password)
    /\ call.result = "False"

\* Four fields, two fields, a salt with an odd number of digits, a salt with a
\* letter that is no digit, the empty string: each with the right secret.
C23_WitnessFourFields ==
    /\ call.fn = "verify_password" /\ call.edit = "four_fields"
    /\ call.plain_password = call.password /\ call.result = "False"

C23_WitnessTwoFields ==
    /\ call.fn = "verify_password" /\ call.edit = "two_fields"
    /\ call.plain_password = call.password /\ call.result = "False"

C23_WitnessSaltOdd ==
    /\ call.fn = "verify_password" /\ call.edit = "salt_odd"
    /\ call.plain_password = call.password /\ call.result = "False"

C23_WitnessSaltLetter ==
    /\ call.fn = "verify_password" /\ call.edit = "salt_letter"
    /\ call.plain_password = call.password /\ call.result = "False"

C23_WitnessEmpty ==
    /\ call.fn = "verify_password" /\ call.hashed_password = << >>
    /\ call.result = "False"

(***************************************************************************)
(* C24.  Decoding a freshly minted refresh token (the token as minted,     *)
(* not past its exp) recovers exactly the subject and the jti it was       *)
(* minted with, together with typ = "refresh".                             *)
(***************************************************************************)
C24_DecodeRecovers ==
    (call.fn = "decode_refresh_token" /\ call.presented = call.token
                                      /\ call.now <= call.token.exp)
        => /\ call.result = "ok"
           /\ call.payload.sub = call.subject
           /\ call.payload.jti = call.jti
           /\ call.payload.typ = "refresh"

\* A token whose jti differs from its subject, decoded at the time it was minted.
C24_Witness ==
    /\ call.fn = "decode_refresh_token" /\ call.presented = call.token
    /\ call.now = 0
    /\ call.subject = "123e4567-e89b-12d3-a456-426614174000" /\ call.jti = "abcd"
    /\ call.payload.sub = call.subject /\ call.payload.jti = "abcd"

\* At the last instant of its life.
C24_WitnessLastInstant ==
    /\ call.fn = "decode_refresh_token" /\ call.presented = call.token
    /\ call.now = call.token.exp
    /\ call.result = "ok"

(***************************************************************************)
(* C25.  As claimed: decode reports distinct error kinds for a token past  *)
(* its expiry, a token signed with a different key and a token of the      *)
(* wrong type, so that two decodes that fail for different ones of these   *)
(* reasons raise different errors.                                         *)
(***************************************************************************)
Faults(c) ==
    {f \in {"signature", "expired", "type"} :
        \/ f = "signature" /\ c.presented.key # jwt_secret
        \/ f = "expired" /\ c.presented.exp < c.now
        \/ f = "type" /\ c.presented.typ # "refresh"}

C25_DistinctErrorKinds ==
    [][ ( /\ call.fn = "decode_refresh_token" /\ call'.fn = "decode_refresh_token"
          /\ Cardinality(Faults(call)) = 1 /\ Cardinality(Faults(call')) = 1
          /\ Faults(call) # Faults(call') )
        => call.result # call'.result ]_vars

(***************************************************************************)
(* C25, amended.  decode reports two errors: a token past its expiry and a *)
(* token signed with a different key both raise 401 "Invalid or expired    *)
(* token", whatever their type; a well-signed, unexpired token of the      *)
(* wrong type raises 401 "Invalid token type".  A caller can tell the      *)
(* wrong type from the other two, and cannot tell an expired token from    *)
(* one with an invalid signature.                                          *)
(***************************************************************************)
C25_TwoErrorKinds ==
    call.fn = "decode_refresh_token" =>
        call.result =
            IF "signature" \in Faults(call) \/ "expired" \in Faults(call)
            THEN "Invalid or expired token"
            ELSE IF "type" \in Faults(call) THEN "Invalid token type"
            ELSE "ok"

\* An expired token with a good signature has raised the error of a bad signature.
C25_Witness ==
    /\ call.fn = "decode_refresh_token"
    /\ Faults(call) = {"expired"}
    /\ call.result = "Invalid or expired token"

C25_WitnessSignature ==
    /\ call.fn = "decode_refresh_token"
    /\ Faults(call) = {"signature"}
    /\ call.result = "Invalid or expired token"

C25_WitnessType ==
    /\ call.fn = "decode_refresh_token"
    /\ Faults(call) = {"type"}
    /\ call.result = "Invalid token type"

\* An access token past its exp: the expiry is reported, the type is not.
C25_WitnessExpiredAccess ==
    /\ call.fn = "decode_refresh_token"
    /\ Faults(call) = {"expired", "type"}
    /\ call.result = "Invalid or expired token"

(***************************************************************************)
(* C26.  No step of login, refresh or logout deletes a session row or      *)
(* changes the jti, the user_id or the expires_at of an existing row: the  *)
(* set of rows only grows and revoked rows are retained.                   *)
(***************************************************************************)
C26_RowsRetained ==
    [][ \A j \in DOMAIN sessions :
          /\ j \in DOMAIN sessions'
          /\ sessions'[j].user_id = sessions[j].user_id
          /\ sessions'[j].expires_at = sessions[j].expires_at ]_vars

\* A rotated row and a logged-out row are both still there, past their expiry.
C26_Witness ==
    /\ \E j \in DOMAIN sessions : Rotated(j)
    /\ \E j \in DOMAIN sessions : Revoked(j)
    /\ \A j \in DOMAIN sessions : sessions[j].expires_at < clock
    /\ Cardinality(DOMAIN sessions) = MaxSessions

(***************************************************************************)
(* C27.  A successful login revokes and modifies no existing session: the  *)
(* Active sessions of the user are those it had and the one new row, so n  *)
(* logins without refresh or logout leave n Active sessions; and each      *)
(* Active session is refreshable whatever other sessions its user holds:   *)
(* a refresh presenting its token passes the lookup.                       *)
(***************************************************************************)
ActiveOf(u) == {j \in DOMAIN sessions : sessions[j].user_id = u /\ Active(j)}
ActiveOfAfter(u) == {j \in DOMAIN sessions' : sessions'[j].user_id = u /\ Active(j)'}

C27_SessionsCoexist ==
    [][ /\ (response'.op = "login" /\ response'.status = "200") =>
              /\ \A j \in DOMAIN sessions : sessions'[j] = sessions[j]
              /\ \E n \in DOMAIN sessions' \ DOMAIN sessions :
                    ActiveOfAfter(response'.user) = ActiveOf(response'.user) \cup {n}
        /\ \A p \in Procs : \A t \in refreshTokens :
              (refresh_lookup(p, t) /\ Active(t.jti))
                 => req'[p].pc = "rotate" /\ req'[p].token = t /\ response' = response ]_vars

\* As many logins of one user as the table takes, as many Active sessions.
C27_Witness ==
    /\ response.op = "login" /\ response.status = "200"
    /\ Cardinality(ActiveOf(response.user)) = MaxSessions

\* One session of a user has been refreshed while another one of the same user,
\* opened by a login, stays Active.
C27_WitnessRefreshed ==
    /\ response.op = "refresh" /\ response.status = "200"
    /\ \E j \in ActiveOf(response.user) : parent[j] = NULL

(***************************************************************************)
(* C28.  Rotation is all-or-nothing: no committed state, whether a         *)
(* concurrent request reads it or a crash leaves it, has some but not all  *)
(* of the writes of a rotation.  Every row a rotation inserted comes with  *)
(* the link of the row it was rotated from.  The code commits twice: line  *)
(* 93 commits revoked = true and the new row, line 129 the link.           *)
(***************************************************************************)
C28_RotationAtomic ==
    \A n \in DOMAIN sessions :
        parent[n] # NULL =>
            /\ sessions[parent[n]].revoked
            /\ sessions[parent[n]].replaced_by # NULL

(***************************************************************************)
(* C29.  Once logout(t) has committed on a session (the row is revoked and *)
(* no rotation has inserted a successor for it), no step inserts a session *)
(* created by rotating that session.  A refresh that passed its lookup     *)
(* before the commit of logout writes without reading the row again.       *)
(***************************************************************************)
LoggedOut(j) == sessions[j].revoked /\ \A k \in DOMAIN sessions : parent[k] # j

C29_NoRotationAfterLogout ==
    [][ \A j \in DOMAIN sessions :
          LoggedOut(j) =>
             \A k \in DOMAIN sessions' : k \notin DOMAIN sessions => parent'[k] # j ]_vars

(***************************************************************************)
(* C30.  refresh and logout modify only the session row of the presented   *)
(* token's jti, and refresh inserts one new row besides: a step that       *)
(* answers a refresh or a logout, or takes one up, changes no row but      *)
(* that one, other sessions of the same user and the successor of a        *)
(* rotated session whose old token is logged out included; the lookups     *)
(* write nothing and only the first commit of a refresh inserts a row.     *)
(***************************************************************************)
OthersUnchanged(jti) ==
    \A j \in DOMAIN sessions : j # jti => (j \in DOMAIN sessions' /\ sessions'[j] = sessions[j])

C30_OnlyOwnRow ==
    [][ \A p \in Procs :
          /\ refresh_rotate(p) =>
                /\ OthersUnchanged(req[p].token.jti)
                /\ Cardinality(DOMAIN sessions' \ DOMAIN sessions) = 1
          /\ refresh_link(p) =>
                /\ OthersUnchanged(req[p].token.jti)
                /\ DOMAIN sessions' = DOMAIN sessions
          /\ logout_commit(p) =>
                /\ OthersUnchanged(req[p].token.jti)
                /\ DOMAIN sessions' = DOMAIN sessions
          /\ (req[p].pc = "idle" /\ req'[p].pc \in {"rotate", "revoke"}) => sessions' = sessions
          /\ (req' = req /\ response'.op \in {"refresh", "logout"}) => sessions' = sessions ]_vars

\* The old token of a rotated session has been logged out; the successor is Active.
C30_Witness ==
    /\ response.op = "logout" /\ response.status = "204" /\ response.seen = "revoked"
    /\ Rotated(response.token.jti)
    /\ sessions[response.token.jti].replaced_by \in DOMAIN sessions
    /\ Active(sessions[response.token.jti].replaced_by)

\* A session has been logged out and another one of the same user is Active.
C30_WitnessSameUser ==
    /\ response.op = "logout" /\ response.status = "204" /\ response.seen = "active"
    /\ \E j \in ActiveOf(sessions[response.token.jti].user_id) :
          j # response.token.jti /\ parent[j] = NULL

(***************************************************************************)
(* C31.  Login identifiers are unambiguous: in every state reached through *)
(* register, for every identifier string at most one user has username     *)
(* equal to it or email equal to it, so the username-or-email lookup of    *)
(* login matches at most one row.  create_user compares the new username   *)
(* with the stored usernames and the new email with the stored emails; it  *)
(* never compares a username with an email.                                *)
(***************************************************************************)
Strings == {users[u].username : u \in DOMAIN users} \cup {users[u].email : u \in DOMAIN users}

C31_UnambiguousIdentifiers ==
    \A identifier \in Strings : Cardinality(matching_users(identifier)) <= 1

(***************************************************************************)
(* C32.  A demotion takes effect immediately.  A role change to driver     *)
(* that is answered 200 has stored role driver for its target in the same  *)
(* step, and every admin-only request started while the stored role of its *)
(* caller is driver is answered 403 "Admin privileges required" and goes   *)
(* no further, whatever access token the caller authenticates with: the    *)
(* token carries sub, iat, exp and jti, and require_admin reads the role   *)
(* from the row get_current_user loaded for this request.                  *)
(***************************************************************************)
Demotion ==
    /\ response'.op \in {"set_role", "set_user_role"} /\ response'.status = "200"
    /\ response'.target.role = "driver"
    /\ response' # response

C32_DemotionImmediate ==
    [][ /\ Demotion => users'[response'.user].role = "driver"
        /\ \A p \in Procs : \A t \in Bearers :
              (set_role_endpoint(p, t) /\ Authenticates(t) /\ users[t.sub].role = "driver")
                 => /\ response' = [Raise("set_role", NoToken, "403", "Admin privileges required")
                                      EXCEPT !.user = t.sub]
                    /\ req' = req
                    /\ users' = users ]_vars

\* The first account, created admin and demoted since, is refused with the token
\* minted for it: the token of an account is the same before and after its demotion.
C32_Witness ==
    /\ response.op = "set_role" /\ response.status = "403"
    /\ response.user = "u1"
    /\ users["u1"].role = "driver"
    /\ create_access_token("u1", 0 - 1, clock) \in Bearers

\* The account that was demoted is the caller that demoted it.
C32_WitnessSelf ==
    /\ response.op = "set_role" /\ response.status = "200"
    /\ response.target = [by |-> "id", key |-> "u1", role |-> "driver"]
    /\ users["u1"].role = "driver"
    /\ Cardinality(DOMAIN users) = 1

(***************************************************************************)
(* C33.  setRole performs no last-admin check.  In sequential histories a  *)
(* role change to driver whose target exists is answered 200 and stores    *)
(* role driver, the target being the only admin (or the caller) or not, so *)
(* the store is left with users and no admin; from such a store a register *)
(* that inserts a row inserts it with role admin, and bootstrap-admin      *)
(* passes its count for every authenticated caller and promotes it.        *)
(***************************************************************************)
ZeroAdmins == DOMAIN users # {} /\ Admins = {}

SetRoleStep(p) ==
    \/ set_role_commit(p, response'.target.by, response'.target.key, response'.target.role)
    \/ set_user_role(p, response'.target.by, response'.target.key, response'.target.role)

C33_NoLastAdminCheck ==
    [][ \A p \in Procs :
          /\ ( /\ SetRoleStep(p)
               /\ response'.target.role = "driver"
               /\ find_target(response'.target.by, response'.target.key) # {} )
                => /\ response'.status = "200"
                   /\ response'.user \in find_target(response'.target.by, response'.target.key)
                   /\ users'[response'.user].role = "driver"
                   /\ Admins' = Admins \ {response'.user}
          /\ (register_insert(p) /\ ZeroAdmins /\ ~unique_violation(req[p].user))
                => /\ response'.op = "register" /\ response'.status = "200"
                   /\ users'[response'.user].role = "admin"
          /\ \A t \in Bearers :
                (bootstrap_count(p, t) /\ ZeroAdmins /\ Authenticates(t))
                   => req'[p].pc = "promote" /\ req'[p].current_user.id = t.sub
          /\ (bootstrap_commit(p) /\ ZeroAdmins)
                => /\ response'.op = "bootstrap" /\ response'.status = "200"
                   /\ Admins' = {req[p].current_user.id} ]_vars

\* The only admin has been demoted and bootstrap-admin has succeeded again: in a
\* sequential history the first user is created admin, so the count of
\* bootstrap-admin passes only after a demotion has left no admin.
C33_Witness ==
    /\ response.op = "bootstrap" /\ response.status = "200"
    /\ Admins = {response.user}

\* The demotion of the only admin has been answered 200 and no admin is left.
C33_WitnessZero ==
    /\ response.op = "set_role" /\ response.status = "200"
    /\ response.target.role = "driver"
    /\ ZeroAdmins

\* The register that followed the demotion of the only admin created an admin.
C33_WitnessRegister ==
    /\ response.op = "register" /\ response.status = "200"
    /\ response.user # "u1"
    /\ Admins = {response.user}
    /\ bootstrapped = {}

(***************************************************************************)
(* C34.  In every sequential history made only of register and             *)
(* bootstrap-admin requests, whenever a user exists exactly one user has   *)
(* role admin, and it is the first registered user (the row of the first   *)
(* id uuid4_user hands out); no bootstrap-admin request passes its count.  *)
(***************************************************************************)
first_registered == UserIdPool[1]

C34_OneAdminTheFirst ==
    /\ DOMAIN users # {} => Admins = {first_registered}
    /\ \A p \in Procs : req[p].pc # "promote"

\* A second user has been registered and an authenticated caller, the second user,
\* has been refused by bootstrap-admin.
C34_Witness ==
    /\ Cardinality(DOMAIN users) = 2
    /\ response.op = "bootstrap" /\ response.status = "403"
    /\ response.user # first_registered
    /\ Admins = {first_registered}

\* The second register has answered.
C34_WitnessRegistered ==
    /\ response.op = "register" /\ response.status = "200"
    /\ response.user # first_registered
    /\ users[response.user].role = "driver"

(***************************************************************************)
(* C35.  Every session opened by login or by refresh gets expires_at = the *)
(* time of the call + days, and the max-age returned with its token is     *)
(* exactly days * 86400 seconds, whatever lifetime the rotated session had *)
(* left: every inserted row expires days after the clock of the step that  *)
(* inserts it, and every login or refresh answered 200 carries that        *)
(* max_age.  A rotation made after its session was opened therefore        *)
(* expires after the session it replaces.                                  *)
(***************************************************************************)
ttl_seconds == days * 86400

C35_SlidingExpiry ==
    [][ /\ \A j \in DOMAIN sessions' :
              j \notin DOMAIN sessions => sessions'[j].expires_at = clock + ttl_seconds
        /\ (response' # response /\ response'.op \in {"login", "refresh"}
              /\ response'.status = "200")
              => response'.max_age = ttl_seconds ]_vars

\* A refresh has been answered for a session that was rotated when it had less than
\* days left: the session that replaced it expires after it would have.
C35_Witness ==
    /\ response.op = "refresh" /\ response.status = "200"
    /\ response.max_age = ttl_seconds
    /\ \E n \in DOMAIN sessions :
          /\ parent[n] = response.token.jti
          /\ sessions[n].expires_at > sessions[parent[n]].expires_at
          /\ sessions[parent[n]].expires_at - clock < ttl_seconds

\* The second commit of a rotation is made at a later time than its first: the
\* max_age returned is that of the creation.
C35_WitnessLateLink ==
    /\ response.op = "refresh" /\ response.status = "200"
    /\ \E n \in DOMAIN sessions :
          /\ parent[n] = response.token.jti
          /\ sessions[n].expires_at - clock < ttl_seconds

\* A login has been answered after the time of the first one.
C35_WitnessLogin ==
    /\ response.op = "login" /\ response.status = "200"
    /\ response.max_age = ttl_seconds
    /\ clock > 0

(***************************************************************************)
(* C36.  An access token (its payload has no typ) presented to refresh is  *)
(* answered 401 by decode_refresh_token, before the row of its jti is      *)
(* looked up, and no session row changes: the detail is "Invalid token     *)
(* type", or "Invalid or expired token" once the access token has expired, *)
(* never that of the jti test or of the lookup, whether the token has a    *)
(* jti or not and whether or not its subject has Active sessions; no       *)
(* refresh in flight holds an access token.                                *)
(***************************************************************************)
NotARefreshToken == {"Invalid token type", "Invalid or expired token"}

WithoutJti(t) == [t EXCEPT !.jti = NULL]

C36_AccessTokenRefused ==
    [][ /\ (response' # response /\ response'.op = "refresh"
               /\ response'.token \in accessTokens)
              => /\ response'.status = "401"
                 /\ response'.detail \in NotARefreshToken
                 /\ response'.detail = decode_refresh_token(response'.token, clock)
                 /\ sessions' = sessions /\ parent' = parent
                 /\ refreshTokens' = refreshTokens /\ accessTokens' = accessTokens
                 /\ req' = req
        /\ \A p \in Procs : req'[p].op = "refresh" => req'[p].token \notin accessTokens
        /\ \A t \in accessTokens :
              /\ t.typ # "refresh"
              /\ refresh_check(WithoutJti(t), clock) \in NotARefreshToken ]_vars

\* An access token that has not expired, whose subject has Active sessions, has
\* been presented to refresh and refused for its type.
C36_Witness ==
    /\ response.op = "refresh" /\ response.status = "401"
    /\ response.token \in accessTokens
    /\ response.detail = "Invalid token type"
    /\ ActiveOf(response.token.sub) # {}

\* An expired access token has been presented to refresh.
C36_WitnessExpired ==
    /\ response.op = "refresh" /\ response.status = "401"
    /\ response.token \in accessTokens
    /\ response.detail = "Invalid or expired token"

====
